---- MODULE Spec2Model ----
(***************************************************************************)
(* A model of the agent memory / retrieval / reflection core of the       *)
(* Philosopher's Library: the MemoryStream store (lib/memory), the         *)
(* retrieval scoring (lib/retrieval), the reflection cycle                 *)
(* (lib/reflection) and the AgentController (lib/agents).                  *)
(*                                                                         *)
(* Representation:                                                         *)
(*  - a string is a sequence of words (a "text"); `a b` joined by a space  *)
(*    is the concatenation of the two word sequences, s.includes(m) is     *)
(*    "m occurs as a contiguous run of words of s", s.split(' ')[0] is the *)
(*    first word;                                                          *)
(*  - a Date is a count of hours, the null Date is Null;                   *)
(*  - a node id `node_<n>` is the pair <<"node", n>>;                      *)
(*  - a Map is a function, a MemoryNode reference is the node's id (the    *)
(*    sequences and keyword buckets of the store alias the objects held in *)
(*    idToNode, so holding the id models the aliasing);                    *)
(*  - scores are fixed-point numbers with Scale units per 1.0, weights are *)
(*    counted in tenths.                                                   *)
(***************************************************************************)
EXTENDS Integers, Sequences, FiniteSets, TLC

VARIABLES
    ms,         \* the agent's MemoryStream (private fields of the class)
    scratch,    \* agent.scratch: currTime, reflection counters, recentInsights
    run,        \* the position and locals of an in-flight maybeReflect call
    wallClock,  \* the value `new Date()` would return
    lastOp,     \* the last completed operation and what it returned
    observed,   \* history: the poignancies observe has counted since the
                \* reflection counter was last reset
    activeDialogues,        \* DialogueManager.activeDialogues (Map id -> Dialogue)
    dialogueCall,           \* the DialogueManager calls in flight
    others,                 \* the conversation fields of the other controllers
    state,                  \* the SimulationState of lib/simulation
    isGeneratingDialogue,   \* the module flag of lib/simulation/loop.ts
    calls                   \* the in-flight asynchronous calls of the simulation

dialogueVars == <<activeDialogues, dialogueCall, others>>

simVars == <<state, isGeneratingDialogue, calls>>

agentVars == <<ms, scratch, run, wallClock, observed>>

vars == <<ms, scratch, run, wallClock, lastOp, observed,
          activeDialogues, dialogueCall, others,
          state, isGeneratingDialogue, calls>>

----------------------------------------------------------------------------
\* Bounds of the model

\* largest number of nodes a store is grown to by direct add calls
MaxNodes == 4
\* largest number of nodes of a store that is retrieved from, saved and restored
MaxPool == 3
\* latest hour of the simulation clock and of the wall clock
MaxTime == 2
\* fixed-point units per 1.0 in a score
Scale == 10000
\* importanceTriggerMax of the modelled agent (a scratch field; 150 by default)
TriggerMax == 6

----------------------------------------------------------------------------
\* Values

Null == 0 - 1
Undefined == <<"$undefined">>
EmptyText == <<>>
IdleMarker == <<"is", "idle">>
NodeTypes == {"event", "thought", "chat", "source"}

Range(s) == {s[i] : i \in DOMAIN s}

Max(S) == CHOOSE x \in S : \A y \in S : y <= x
Min(S) == CHOOSE x \in S : \A y \in S : x <= y

MapGet(m, k, dflt) == IF k \in DOMAIN m THEN m[k] ELSE dflt
MapSet(m, k, v) == (k :> v) @@ m

\* String.prototype.includes, on words
Includes(text, marker) ==
    \E i \in 0..(Len(text) - Len(marker)) :
        SubSeq(text, i + 1, i + Len(marker)) = marker

\* String.prototype.toLowerCase, on words
LowerWord(w) ==
    CASE w = "Ficino" -> "ficino"
      [] w = "Maier" -> "maier"
      [] w = "Plato" -> "plato"
      [] w = "Love" -> "love"
      [] w = "Anti" -> "anti"
      [] w = "Syn" -> "syn"
      [] w = "Evidence" -> "evidence"
      [] OTHER -> w
toLowerCase(text) == [i \in DOMAIN text |-> LowerWord(text[i])]

\* Array.prototype.sort with comparator key(a) - key(b): stable, ascending.
\* key is a function from the elements to integers.
RECURSIVE SortAscending(_, _)
SortAscending(s, key) ==
    IF s = <<>> THEN <<>>
    ELSE LET h == Head(s)
             rest == SortAscending(Tail(s), key)
             Before(x) == key[x] < key[h]
             NotBefore(x) == ~(key[x] < key[h])
         IN  SelectSeq(rest, Before) \o <<h>> \o SelectSeq(rest, NotBefore)

\* Array.prototype.sort with comparator key(b) - key(a): stable, descending.
SortDescending(s, key) ==
    SortAscending(s, [x \in DOMAIN key |-> 0 - key[x]])

\* Array.prototype.slice(0, n)
Slice(s, n) == SubSeq(s, 1, IF n < Len(s) THEN n ELSE Len(s))

----------------------------------------------------------------------------
\* lib/memory: MemoryStream

\* a generator that does not derive the id from the count
generateNodeIdFixed(count) == <<"node", 1>>

generateNodeId(count) == <<"node", count>>

\* parseInt(id.split('_')[1])
NodeNumber(id) == id[2]

EmptyStore ==
    [ idToNode |-> <<>>, embeddings |-> <<>>,
      seqEvent |-> <<>>, seqThought |-> <<>>, seqChat |-> <<>>, seqSource |-> <<>>,
      kwToEvent |-> <<>>, kwToThought |-> <<>>, kwToChat |-> <<>>, kwToSource |-> <<>>,
      kwStrengthEvent |-> <<>>, kwStrengthThought |-> <<>> ]

\* for (kw of keywords) index[kw.toLowerCase()].unshift(node)
addToKeywordIndex(nodeId, keywords, index) ==
    LET keys == {toLowerCase(kw) : kw \in keywords}
        Times(key) == Cardinality({kw \in keywords : toLowerCase(kw) = key})
        Rep(n) == [i \in 1..n |-> nodeId]
    IN  [key \in (DOMAIN index) \cup keys |->
            IF key \in keys
            THEN Rep(Times(key)) \o MapGet(index, key, <<>>)
            ELSE index[key]]

\* if (`${predicate} ${object}` !== 'is idle') for (kw of keywords) strength[kw] += 1
UpdateKeywordStrength(strength, a) ==
    IF a.predicate \o a.object # IdleMarker
    THEN [kw \in (DOMAIN strength) \cup a.keywords |->
            IF kw \in a.keywords THEN MapGet(strength, kw, 0) + 1 ELSE strength[kw]]
    ELSE strength

\* a depth taken from the shallowest cited node instead of the deepest
ThoughtDepthOfShallowest(store, evidence) ==
    IF Len(evidence) > 0
    THEN Min({MapGet(store.idToNode, evidence[i], [depth |-> 0]).depth :
                 i \in DOMAIN evidence}) + 1
    ELSE 1

\* The depth addThought computes from its evidence list
ThoughtDepth(store, evidence) ==
    IF Len(evidence) > 0
    THEN Max({MapGet(store.idToNode, evidence[i], [depth |-> 0]).depth :
                 i \in DOMAIN evidence}) + 1
    ELSE 1

\* The node literal the four add operations build. a is the argument record
\* [created, expiration, subject, predicate, object, description, keywords,
\*  poignancy, embeddingPair, evidence, sourceId, sourcePassage].
NewNode(store, type, typeCount, depth, a) ==
    LET nodeCount == Cardinality(DOMAIN store.idToNode) + 1
    IN  [ id |-> generateNodeId(nodeCount),
          nodeCount |-> nodeCount,
          typeCount |-> typeCount,
          type |-> type,
          depth |-> depth,
          created |-> a.created,
          expiration |-> a.expiration,
          lastAccessed |-> a.created,
          subject |-> a.subject,
          predicate |-> a.predicate,
          object |-> a.object,
          description |-> a.description,
          embeddingKey |-> a.embeddingPair[1],
          poignancy |-> a.poignancy,
          keywords |-> a.keywords,
          evidence |-> a.evidence,
          sourceId |-> a.sourceId,
          sourcePassage |-> a.sourcePassage ]

\* The node addEvent builds and returns
eventNode(store, a) ==
    NewNode(store, "event", Len(store.seqEvent) + 1, 0,
            [a EXCEPT !.sourceId = Undefined, !.sourcePassage = Undefined])

addEvent(store, a) ==
    LET node == eventNode(store, a)
    IN  [store EXCEPT
            !.seqEvent = <<node.id>> \o @,
            !.kwToEvent = addToKeywordIndex(node.id, a.keywords, @),
            !.idToNode = MapSet(@, node.id, node),
            !.kwStrengthEvent = UpdateKeywordStrength(@, a),
            !.embeddings = MapSet(@, a.embeddingPair[1], a.embeddingPair[2])]

\* The node addThought builds and returns
thoughtNode(store, a) ==
    NewNode(store, "thought", Len(store.seqThought) + 1,
            ThoughtDepth(store, a.evidence),
            [a EXCEPT !.sourceId = Undefined, !.sourcePassage = Undefined])

addThought(store, a) ==
    LET node == thoughtNode(store, a)
    IN  [store EXCEPT
            !.seqThought = <<node.id>> \o @,
            !.kwToThought = addToKeywordIndex(node.id, a.keywords, @),
            !.idToNode = MapSet(@, node.id, node),
            !.kwStrengthThought = UpdateKeywordStrength(@, a),
            !.embeddings = MapSet(@, a.embeddingPair[1], a.embeddingPair[2])]

\* The node addChat builds and returns
chatNode(store, a) ==
    NewNode(store, "chat", Len(store.seqChat) + 1, 0,
            [a EXCEPT !.sourceId = Undefined, !.sourcePassage = Undefined])

addChat(store, a) ==
    LET node == chatNode(store, a)
    IN  [store EXCEPT
            !.seqChat = <<node.id>> \o @,
            !.kwToChat = addToKeywordIndex(node.id, a.keywords, @),
            !.idToNode = MapSet(@, node.id, node),
            !.embeddings = MapSet(@, a.embeddingPair[1], a.embeddingPair[2])]

\* The node addSource builds and returns
\* a source filed as a thought
sourceNodeTypedThought(store, a) ==
    NewNode(store, "thought", Len(store.seqSource) + 1, 0,
            [a EXCEPT !.expiration = Null, !.evidence = <<>>])

sourceNode(store, a) ==
    NewNode(store, "source", Len(store.seqSource) + 1, 0,
            [a EXCEPT !.expiration = Null, !.evidence = <<>>])

addSource(store, a) ==
    LET node == sourceNode(store, a)
    IN  [store EXCEPT
            !.seqSource = <<node.id>> \o @,
            !.kwToSource = addToKeywordIndex(node.id, a.keywords, @),
            !.idToNode = MapSet(@, node.id, node),
            !.embeddings = MapSet(@, a.embeddingPair[1], a.embeddingPair[2])]

\* getNode(nodeId): the node, or Undefined
getNode(store, nodeId) == MapGet(store.idToNode, nodeId, Undefined)

getEmbedding(store, embeddingKey) == MapGet(store.embeddings, embeddingKey, Undefined)

getAllMemories(store) == store.seqEvent \o store.seqThought

getAllMemoriesWithSources(store) ==
    store.seqEvent \o store.seqThought \o store.seqSource

touchNode(store, nodeId, time) ==
    IF nodeId \in DOMAIN store.idToNode
    THEN [store EXCEPT !.idToNode[nodeId].lastAccessed = time]
    ELSE store


\* null in the saved data, where a date is an ISO string
JsonNull == <<"null">>

\* Date.prototype.toISOString: the day and the hour of the Date
toISOString(date) == <<"iso", date \div 24, date % 24>>

\* new Date(isoString)
ParseDate(iso) == iso[2] * 24 + iso[3]

\* The SerializedNode toJSON writes for a node (keyed by the node's id)
SerializeNode(node) ==
    [ nodeCount |-> node.nodeCount,
      typeCount |-> node.typeCount,
      type |-> node.type,
      depth |-> node.depth,
      created |-> toISOString(node.created),
      expiration |-> IF node.expiration # Null
                     THEN toISOString(node.expiration) ELSE JsonNull,
      lastAccessed |-> toISOString(node.lastAccessed),
      subject |-> node.subject,
      predicate |-> node.predicate,
      object |-> node.object,
      description |-> node.description,
      embeddingKey |-> node.embeddingKey,
      poignancy |-> node.poignancy,
      keywords |-> node.keywords,
      evidence |-> node.evidence,
      sourceId |-> node.sourceId,
      sourcePassage |-> node.sourcePassage ]

toJSON(store) ==
    [ nodes |-> [id \in DOMAIN store.idToNode |-> SerializeNode(store.idToNode[id])],
      embeddings |-> store.embeddings,
      kwStrengthEvent |-> store.kwStrengthEvent,
      kwStrengthThought |-> store.kwStrengthThought ]

\* Object.keys(data.nodes).sort((a, b) => number(a) - number(b))
RECURSIVE SortedNodeIds(_)
SortedNodeIds(ids) ==
    IF ids = {} THEN <<>>
    ELSE LET first == CHOOSE id \in ids :
                          \A other \in ids : NodeNumber(id) <= NodeNumber(other)
         IN  <<first>> \o SortedNodeIds(ids \ {first})

\* x || dflt for a string x
OrElse(x, dflt) == IF x = Undefined \/ x = EmptyText THEN dflt ELSE x

\* One iteration of loadFromData's loop: the add call the switch selects
ReplayNode(store, serialized) ==
    LET a == [ created |-> ParseDate(serialized.created),
               expiration |-> IF serialized.expiration # JsonNull
                              THEN ParseDate(serialized.expiration) ELSE Null,
               subject |-> serialized.subject,
               predicate |-> serialized.predicate,
               object |-> serialized.object,
               description |-> serialized.description,
               keywords |-> serialized.keywords,
               poignancy |-> serialized.poignancy,
               embeddingPair |-> <<serialized.embeddingKey,
                                   MapGet(store.embeddings, serialized.embeddingKey, <<>>)>>,
               evidence |-> serialized.evidence,
               sourceId |-> OrElse(serialized.sourceId, EmptyText),
               sourcePassage |-> OrElse(serialized.sourcePassage, EmptyText) ]
    IN  CASE serialized.type = "event" -> addEvent(store, a)
          [] serialized.type = "thought" -> addThought(store, a)
          [] serialized.type = "chat" -> addChat(store, a)
          [] serialized.type = "source" -> addSource(store, a)
          [] OTHER -> store

RECURSIVE ReplayNodes(_, _, _)
ReplayNodes(store, data, nodeIds) ==
    IF nodeIds = <<>> THEN store
    ELSE ReplayNodes(ReplayNode(store, data.nodes[Head(nodeIds)]), data, Tail(nodeIds))

\* new MemoryStream(savedData)
loadFromData(data) ==
    LET loaded == [EmptyStore EXCEPT !.embeddings = data.embeddings]
        replayed == ReplayNodes(loaded, data, SortedNodeIds(DOMAIN data.nodes))
    IN  [replayed EXCEPT
            !.kwStrengthEvent = data.kwStrengthEvent @@ @,
            !.kwStrengthThought = data.kwStrengthThought @@ @]

----------------------------------------------------------------------------
\* lib/retrieval

\* Math.sqrt, rounded down (exact on the squares the model's vectors give)
Sqrt(n) == CHOOSE r \in 0..n : r * r <= n /\ (r + 1) * (r + 1) > n

RECURSIVE Sum(_)
Sum(f) == IF f = <<>> THEN 0 ELSE Head(f) + Sum(Tail(f))

\* cosineSimilarity(a, b) of two vectors of the same length, in Scale units
cosineSimilarity(a, b) ==
    LET dotProduct == Sum([i \in DOMAIN a |-> a[i] * b[i]])
        normA == Sum([i \in DOMAIN a |-> a[i] * a[i]])
        normB == Sum([i \in DOMAIN a |-> b[i] * b[i]])
        magnitude == Sqrt(normA) * Sqrt(normB)
    IN  IF magnitude = 0 THEN 0 ELSE (dotProduct * Scale) \div magnitude

\* a normalisation that maps a flat score map to the lower end of the range
normalizeScoresFlatToMin(scores, targetMin, targetMax) ==
    LET values == {scores[k] : k \in DOMAIN scores}
        range == Max(values) - Min(values)
    IN  [k \in DOMAIN scores |->
            IF range = 0 THEN targetMin
            ELSE ((scores[k] - Min(values)) * (targetMax - targetMin)) \div range
                 + targetMin]

normalizeScores(scores, targetMin, targetMax) ==
    LET values == {scores[k] : k \in DOMAIN scores}
        minVal == Min(values)
        maxVal == Max(values)
        range == maxVal - minVal
    IN  IF range = 0
        THEN [k \in DOMAIN scores |-> (targetMax - targetMin) \div 2]
        ELSE [k \in DOMAIN scores |->
                ((scores[k] - minVal) * (targetMax - targetMin)) \div range + targetMin]

\* Math.pow(recencyDecay, i), in Scale units
RECURSIVE Pow(_, _)
Pow(decay, i) == IF i = 0 THEN Scale ELSE (Pow(decay, i - 1) * decay) \div Scale

\* nodes is a sequence of distinct node ids of the store
extractRecency(store, nodes, recencyDecay) ==
    LET sorted == SortDescending(nodes,
                      [id \in Range(nodes) |-> store.idToNode[id].lastAccessed])
    IN  [id \in Range(nodes) |->
            Pow(recencyDecay, (CHOOSE i \in DOMAIN sorted : sorted[i] = id) - 1)]

extractImportance(store, nodes) ==
    [id \in Range(nodes) |-> store.idToNode[id].poignancy]

extractRelevance(store, nodes, focalPointEmbedding) ==
    [id \in Range(nodes) |->
        LET nodeEmbedding == getEmbedding(store, store.idToNode[id].embeddingKey)
        IN  IF nodeEmbedding # Undefined
            THEN cosineSimilarity(nodeEmbedding, focalPointEmbedding)
            ELSE 0]

\* weights in tenths, recencyDecay in Scale units
DEFAULT_CONFIG ==
    [ recencyWeight |-> 5, relevanceWeight |-> 30, importanceWeight |-> 20,
      recencyDecay |-> (99 * Scale) \div 100, maxResults |-> 30 ]

\* retrieve: the candidate pool of a focal point
CandidatePool(store) ==
    LET Kept(id) == ~Includes(store.idToNode[id].embeddingKey, <<"idle">>)
    IN  SelectSeq(getAllMemoriesWithSources(store), Kept)

\* retrieve: the scored nodes of a focal point, before they are ranked
\* (in the order of sortedNodes: ascending lastAccessed)
ScoredNodes(store, focalEmbedding, cfg) ==
    LET allNodes == CandidatePool(store)
        sortedNodes == SortAscending(allNodes,
                          [id \in Range(allNodes) |-> store.idToNode[id].lastAccessed])
        recencyScores ==
            normalizeScores(extractRecency(store, sortedNodes, cfg.recencyDecay), 0, Scale)
        importanceScores ==
            normalizeScores(extractImportance(store, sortedNodes), 0, Scale)
        relevanceScores ==
            normalizeScores(extractRelevance(store, sortedNodes, focalEmbedding), 0, Scale)
    IN  [i \in DOMAIN sortedNodes |->
            LET id == sortedNodes[i]
            IN  [ node |-> id,
                  recencyScore |-> recencyScores[id],
                  relevanceScore |-> relevanceScores[id],
                  importanceScore |-> importanceScores[id],
                  totalScore |-> cfg.recencyWeight * recencyScores[id]
                                 + cfg.relevanceWeight * relevanceScores[id]
                                 + cfg.importanceWeight * importanceScores[id] ]]

\* a ranking that keeps the order of sortedNodes
RankByTotalScoreUnsorted(scoredNodes) == scoredNodes

\* scoredNodes.sort((a, b) => b.totalScore - a.totalScore)
RankByTotalScore(scoredNodes) ==
    LET order == SortDescending([i \in DOMAIN scoredNodes |-> i],
                     [i \in DOMAIN scoredNodes |-> scoredNodes[i].totalScore])
    IN  [k \in DOMAIN order |-> scoredNodes[order[k]]]

\* retrieve: topNodes of one focal point
TopNodes(store, focalEmbedding, cfg) ==
    IF CandidatePool(store) = <<>> THEN <<>>
    ELSE Slice(RankByTotalScore(ScoredNodes(store, focalEmbedding, cfg)), cfg.maxResults)

\* for (const scored of topNodes) memoryStream.touchNode(scored.node.id, now)
RECURSIVE TouchAll(_, _, _)
TouchAll(store, topNodes, now) ==
    IF topNodes = <<>> THEN store
    ELSE TouchAll(touchNode(store, Head(topNodes).node, now), Tail(topNodes), now)

\* results.set(focalPoint, topNodes) on a Map kept as a sequence of entries
\* in insertion order
ResultsSet(results, focalPoint, topNodes) ==
    IF \E i \in DOMAIN results : results[i].focalPoint = focalPoint
    THEN [i \in DOMAIN results |->
            IF results[i].focalPoint = focalPoint
            THEN [results[i] EXCEPT !.topNodes = topNodes] ELSE results[i]]
    ELSE Append(results, [focalPoint |-> focalPoint, topNodes |-> topNodes])

----------------------------------------------------------------------------
\* Arguments of the add operations

Texts ==
    [ reads |-> <<"Ficino", "reads", "Plato">>,
      idle |-> <<"Ficino", "is", "idle">>,
      idleTalk |-> <<"Ficino", "ponders", "idle", "talk">>,
      love |-> <<"Love", "binds", "all">> ]

\* An argument record of an add operation made from a triple, its text, its
\* poignancy and its embedding vector
AddArgs(created, expiration, triple, description, poignancy, embeddingPair, evidence) ==
    [ created |-> created, expiration |-> expiration,
      subject |-> triple[1], predicate |-> triple[2], object |-> triple[3],
      description |-> description,
      keywords |-> {triple[1], triple[2], triple[3]},
      poignancy |-> poignancy,
      embeddingPair |-> embeddingPair,
      evidence |-> evidence,
      sourceId |-> Undefined, sourcePassage |-> Undefined ]

\* The embedding gateway: a fixed vector for each text
EmbeddingOf(text) ==
    CASE text = Texts.reads -> <<1, 0>>
      [] text = Texts.idle -> <<0, 0>>
      [] text = Texts.idleTalk -> <<3, 4>>
      [] text = Texts.love -> <<3, 4>>
      [] OTHER -> <<0, 1>>

\* The contents the store's clients write in the model: a text, its triple,
\* and its poignancy
Contents ==
    { [ text |-> Texts.reads, triple |-> <<<<"Ficino">>, <<"reads">>, <<"Plato">>>>,
        poignancy |-> 8 ],
      [ text |-> Texts.idle, triple |-> <<<<"Ficino">>, <<"is">>, <<"idle">>>>,
        poignancy |-> 1 ],
      [ text |-> Texts.idleTalk,
        triple |-> <<<<"Ficino">>, <<"ponders">>, <<"idle", "talk">>>>,
        poignancy |-> 4 ] }

ContentArgs(c, created, evidence) ==
    AddArgs(created, created + 1, c.triple, c.text, c.poignancy,
            <<c.text, EmbeddingOf(c.text)>>, evidence)

\* The evidence lists a caller of addThought passes in the model: up to two
\* ids, in ascending order, among the ids of the store and the id the new
\* node is about to get (the store accepts any list of strings)
EvidenceLists(store) ==
    LET n == Cardinality(DOMAIN store.idToNode) + 1
        Pairs == {p \in (1..n) \X (1..n) : p[1] < p[2]}
    IN  {<<>>} \cup {<<generateNodeId(i)>> : i \in 1..n}
        \cup {<<generateNodeId(p[1]), generateNodeId(p[2])>> : p \in Pairs}

----------------------------------------------------------------------------
\* State

NoRun == [pc |-> "idle"]

\* DEFAULT_SCRATCH and createPhilosopherAgent. importanceTriggerMax is a field of
\* the agent's saved scratch state; the model runs an agent whose budget is
\* TriggerMax instead of the default, so that the trigger is within reach.
\* null where a string is otherwise held
NullText == <<"$null">>

\* createPhilosopherAgent copies DEFAULT_SCRATCH with an object spread, which
\* copies the fields and not the objects they refer to: the scratch.chat of
\* every agent it creates is the one array DEFAULT_SCRATCH.chat, until an
\* assignment (startConversation, the end of endConversation) gives the
\* agent an array of its own. sharesDefaultChat tells which; chat is the
\* content of the array the field refers to. position and recentInsights
\* are shared in the same way, and are only ever assigned, never written in
\* place. The retrieval weights are in tenths, as in DEFAULT_CONFIG.
InitialScratch ==
    [ currTime |-> 0,
      chattingWith |-> NullText,
      chattingEndTime |-> Null,
      chat |-> <<>>,
      sharesDefaultChat |-> TRUE,
      importanceTriggerMax |-> TriggerMax,
      importanceTriggerCurr |-> TriggerMax,
      importanceEleN |-> 0,
      recencyW |-> 10, relevanceW |-> 10, importanceW |-> 10,
      recencyDecay |-> (99 * Scale) \div 100,
      recentInsights |-> <<>> ]

----------------------------------------------------------------------------
\* The controllers of a dialogue, and the state of lib/dialogue and of
\* lib/simulation at construction

\* the modelled agent's name and the names of the other controllers
AgentName == <<"Ficino">>
OtherNames == {<<"Plato">>, <<"Maier">>}

\* The conversation fields of a controller that has not conversed
IdleConversation ==
    [chattingWith |-> NullText, chattingEndTime |-> Null, chat |-> <<>>,
     sharesDefaultChat |-> TRUE]

\* A DialogueManager that has had no call
NoDialogueCalls == [count |-> 0, calls |-> <<>>, evicted |-> <<>>]

\* state.agents: the ids in the order of the array (the first identities of
\* PHILOSOPHER_IDENTITIES)
SimAgentIds == <<"drebbel", "ficino", "boehme">>
SimAgents == Range(SimAgentIds)

\* null where an agent id is held
NoPartner == "$null"

\* Simulation time is counted in units of 5000 ms: lastConversationTime
\* starts at -10000 ms.
createInitialAgents ==
    [ a \in SimAgents |->
        [ state |-> "idle",
          conversationPartner |-> NoPartner,
          lastConversationTime |-> 0 - 2,
          memoryStream |-> <<>>,
          isGeneratingThought |-> FALSE ] ]

\* createInitialState(). activeConversation is <<>> for null and <<conv>>
\* for a conversation.
createInitialState ==
    [ agents |-> createInitialAgents,
      activeConversation |-> <<>>,
      conversationHistory |-> <<>>,
      isPaused |-> FALSE,
      time |-> 0 ]

\* No asynchronous call of the simulation is in flight: count is the number
\* of conversations created, ticks the handleConversations calls that are
\* waiting, thoughts the number of generateThought calls outstanding per agent
NoCalls ==
    [count |-> 0, ticks |-> <<>>, thoughts |-> [a \in SimAgents |-> 0]]

Init ==
    /\ ms = EmptyStore
    /\ scratch = InitialScratch
    /\ run = NoRun
    /\ wallClock = 0
    /\ lastOp = [op |-> "new"]
    /\ observed = <<>>
    /\ activeDialogues = <<>>
    /\ dialogueCall = NoDialogueCalls
    /\ others = [name \in OtherNames |-> IdleConversation]
    /\ state = createInitialState
    /\ isGeneratingDialogue = FALSE
    /\ calls = NoCalls

StoreHasRoom(limit) == Cardinality(DOMAIN ms.idToNode) < limit

----------------------------------------------------------------------------
\* A client calling the store's add operations directly

ApiAddEvent(c, limit) ==
    /\ run.pc = "idle" /\ StoreHasRoom(limit)
    /\ LET a == ContentArgs(c, scratch.currTime, <<>>)
       IN  /\ ms' = addEvent(ms, a)
           /\ lastOp' = [op |-> "addEvent", node |-> eventNode(ms, a)]
    /\ UNCHANGED <<scratch, run, wallClock, observed>>
    /\ UNCHANGED <<dialogueVars, simVars>>

ApiAddThought(c, evidence, limit) ==
    /\ run.pc = "idle" /\ StoreHasRoom(limit)
    /\ LET a == ContentArgs(c, scratch.currTime, evidence)
       IN  /\ ms' = addThought(ms, a)
           /\ lastOp' = [op |-> "addThought", node |-> thoughtNode(ms, a)]
    /\ UNCHANGED <<scratch, run, wallClock, observed>>
    /\ UNCHANGED <<dialogueVars, simVars>>

ApiAddChat(c, limit) ==
    /\ run.pc = "idle" /\ StoreHasRoom(limit)
    /\ LET a == ContentArgs(c, scratch.currTime, <<>>)
       IN  /\ ms' = addChat(ms, a)
           /\ lastOp' = [op |-> "addChat", node |-> chatNode(ms, a)]
    /\ UNCHANGED <<scratch, run, wallClock, observed>>
    /\ UNCHANGED <<dialogueVars, simVars>>

ApiAddSource(c, limit) ==
    /\ run.pc = "idle" /\ StoreHasRoom(limit)
    /\ LET a == [ContentArgs(c, scratch.currTime, <<>>) EXCEPT
                     !.sourceId = <<"de-amore">>,
                     !.sourcePassage = <<"amor", "nodus">>]
       IN  /\ ms' = addSource(ms, a)
           /\ lastOp' = [op |-> "addSource", node |-> sourceNode(ms, a)]
    /\ UNCHANGED <<scratch, run, wallClock, observed>>
    /\ UNCHANGED <<dialogueVars, simVars>>

AddOps == {"addEvent", "addThought", "addChat", "addSource"}

ReadsContent == {c \in Contents : c.text = Texts.reads}

NextStore ==
    \/ \E c \in Contents : ApiAddEvent(c, MaxNodes)
    \/ \E c \in ReadsContent : \E evidence \in EvidenceLists(ms) :
            ApiAddThought(c, evidence, MaxNodes)
    \/ \E c \in ReadsContent : ApiAddChat(c, MaxNodes)
    \/ \E c \in ReadsContent : ApiAddSource(c, MaxNodes)

SpecStore == Init /\ [][NextStore]_vars


----------------------------------------------------------------------------
\* Retrieval, and saving and restoring, of a store filled by direct add calls

\* the wall clock advances
ClockTick ==
    /\ run.pc # "restored"
    /\ wallClock < MaxTime
    /\ wallClock' = wallClock + 1
    /\ lastOp' = [op |-> "clock"]
    /\ UNCHANGED <<ms, scratch, run, observed>>
    /\ UNCHANGED <<dialogueVars, simVars>>

FocalPointLists == {<<Texts.love>>, <<Texts.reads, Texts.love>>}

\* retrieve(memoryStream, focalPoints, getEmbedding, {maxResults}) is called
ApiRetrieve(focalPoints, maxResults) ==
    /\ run.pc = "idle"
    /\ run' = [ pc |-> "retrieve", caller |-> "retrieve",
                focalPoints |-> focalPoints,
                cfg |-> [DEFAULT_CONFIG EXCEPT !.maxResults = maxResults],
                results |-> <<>> ]
    /\ lastOp' = [op |-> "call"]
    /\ UNCHANGED <<ms, scratch, wallClock, observed>>
    /\ UNCHANGED <<dialogueVars, simVars>>

\* What one iteration of retrieve's loop over the focal points reports
FocalStep(r) ==
    LET focalPoint == Head(r.focalPoints)
    IN  [ op |-> "retrieveFocal", focalPoint |-> focalPoint,
          pool |-> Range(CandidatePool(ms)),
          topNodes |-> TopNodes(ms, EmbeddingOf(focalPoint), r.cfg),
          now |-> wallClock, maxResults |-> r.cfg.maxResults, cfg |-> r.cfg ]

\* One iteration of retrieve's loop over the focal points, in a call of
\* retrieve by a client; after the last one retrieve returns
RetrieveFocal ==
    /\ run.pc = "retrieve" /\ run.caller = "retrieve"
    /\ run.focalPoints # <<>>
    /\ LET step == FocalStep(run)
       IN  /\ ms' = TouchAll(ms, step.topNodes, wallClock)
           /\ run' = IF Tail(run.focalPoints) = <<>> THEN NoRun
                      ELSE [run EXCEPT
                              !.focalPoints = Tail(@),
                              !.results = ResultsSet(@, step.focalPoint, step.topNodes)]
           /\ lastOp' = step
    /\ UNCHANGED <<scratch, wallClock, observed>>
    /\ UNCHANGED <<dialogueVars, simVars>>

\* getEmbedding(focalPoint) rejects: retrieve rejects, and so does its caller
RetrieveThrows ==
    /\ run.pc = "retrieve"
    /\ run.focalPoints # <<>>
    /\ CandidatePool(ms) # <<>>
    /\ run' = NoRun
    /\ lastOp' = [op |-> run.caller, threw |-> TRUE]
    /\ UNCHANGED <<ms, scratch, wallClock, observed>>
    /\ UNCHANGED <<dialogueVars, simVars>>

LoadKinds == {"saved", "unknownType", "gap"}

\* Saved data: what toJSON wrote, or that with a node record of a type the
\* store does not know, or with the last node id renumbered past a gap
SavedData(store, kind) ==
    LET data == toJSON(store)
        n == Cardinality(DOMAIN data.nodes)
        first == generateNodeId(1)
        last == generateNodeId(n)
    IN  CASE kind = "saved" -> data
          [] kind = "unknownType" ->
                [data EXCEPT !.nodes = [@ EXCEPT ![first].type = "belief"]]
          [] kind = "gap" ->
                [data EXCEPT !.nodes =
                    [id \in ((DOMAIN @) \ {last}) \cup {generateNodeId(n + 2)} |->
                        IF id \in DOMAIN @ THEN @[id] ELSE @[last]]]

\* toJSON, then new MemoryStream(savedData) on the saved data. The model
\* follows a store up to its first restore.
Restore(kind) ==
    /\ run.pc = "idle"
    /\ ms.idToNode # <<>>
    /\ ms' = loadFromData(SavedData(ms, kind))
    /\ run' = [pc |-> "restored"]
    /\ lastOp' = [ op |-> "load", kind |-> kind, threw |-> FALSE,
                   saved |-> SavedData(ms, kind), before |-> ms ]
    /\ UNCHANGED <<scratch, wallClock, observed>>
    /\ UNCHANGED <<dialogueVars, simVars>>

NextRetrieval ==
    \/ \E c \in Contents : ApiAddEvent(c, MaxPool)
    \/ \E c \in ReadsContent : ApiAddThought(c, <<>>, MaxPool)
    \/ \E c \in ReadsContent : ApiAddChat(c, MaxPool)
    \/ \E c \in ReadsContent : ApiAddSource(c, MaxPool)
    \/ ClockTick
    \/ \E focalPoints \in FocalPointLists : \E maxResults \in 1..2 :
            ApiRetrieve(focalPoints, maxResults)
    \/ RetrieveFocal
    \/ RetrieveThrows
    \/ \E kind \in LoadKinds : Restore(kind)

SpecRetrieval == Init /\ [][NextRetrieval]_vars

----------------------------------------------------------------------------
\* lib/reflection

\* a trigger that waits until the budget is overdrawn
shouldReflectWhenOverdrawn(sc) == sc.importanceTriggerCurr < 0

\* a trigger that compares with the wrong end of the budget
shouldReflectBelowMax(sc) == sc.importanceTriggerCurr <= sc.importanceTriggerMax

shouldReflect(sc) == sc.importanceTriggerCurr <= 0

\* a reset that forgets the budget
resetOnlyElementCount(sc) ==
    [sc EXCEPT !.importanceEleN = 0]

resetReflectionCounter(sc) ==
    [sc EXCEPT !.importanceTriggerCurr = sc.importanceTriggerMax,
               !.importanceEleN = 0]

updateReflectionCounter(sc, eventPoignancy) ==
    [sc EXCEPT !.importanceTriggerCurr = @ - eventPoignancy,
               !.importanceEleN = @ + 1]

NaN == 0 - 1000

\* parseInt of a token
ParseIntWord(w) ==
    CASE w = "0" -> 0
      [] w = "1" -> 1
      [] w = "2" -> 2
      [] w = "7" -> 7
      [] w = "12" -> 12
      [] w = "-3" -> 0 - 3
      [] OTHER -> NaN

\* parseInt(response.trim()): the number the response starts with
ParseInt(text) == IF text = <<>> THEN NaN ELSE ParseIntWord(text[1])

\* a rating taken as the model gives it
generatePoignancyUnclamped(description, response) ==
    IF Includes(description, IdleMarker) THEN 1
    ELSE LET rating == ParseInt(response)
         IN  IF rating = NaN THEN 5 ELSE rating

\* generatePoignancy, given the language model's response
generatePoignancy(description, response) ==
    IF Includes(description, IdleMarker) THEN 1
    ELSE LET rating == ParseInt(response)
         IN  IF rating = NaN THEN 5 ELSE Max({1, Min({10, rating})})

\* generatePoignancy: the number of calls it makes to the language model
PoignancyCalls(description) ==
    IF Includes(description, IdleMarker) THEN 0 ELSE 1

\* generateTriple, given what the three patterns matched in the response
\* (Undefined where a pattern did not match)
generateTriple(description, response) ==
    [ subject |-> OrElse(response.subject, <<description[1]>>),
      predicate |-> OrElse(response.predicate, <<"reflects", "on">>),
      object |-> OrElse(response.object, description) ]

\* generateFocalPoints, given the trimmed pieces of the response between
\* its list numbers
generateFocalPoints(response) ==
    LET NonEmpty(piece) == Len(piece) > 0
    IN  Slice(SelectSeq(response, NonEmpty), 3)

\* an index taken for the number of a node id
EvidenceNodeIdsByNumber(retrievedNodes, tokens) ==
    LET parsed == [i \in DOMAIN tokens |-> ParseIntWord(tokens[i])]
        InRange(n) == n # NaN /\ n >= 0 /\ n < Len(retrievedNodes)
        evidenceIndices == SelectSeq(parsed, InRange)
    IN  [k \in DOMAIN evidenceIndices |-> generateNodeId(evidenceIndices[k] + 1)]

\* generateInsights: the node ids the EVIDENCE tokens of a block stand for
EvidenceNodeIds(retrievedNodes, tokens) ==
    LET parsed == [i \in DOMAIN tokens |-> ParseIntWord(tokens[i])]
        InRange(n) == n # NaN /\ n >= 0 /\ n < Len(retrievedNodes)
        evidenceIndices == SelectSeq(parsed, InRange)
    IN  [k \in DOMAIN evidenceIndices |-> retrievedNodes[evidenceIndices[k] + 1].node]

\* generateInsights, given the blocks of the response: what INSIGHT: matched
\* (or Undefined) and the comma-separated tokens after EVIDENCE:
generateInsights(retrievedNodes, response) ==
    LET HasInsight(block) == block.insight # Undefined
        blocks == SelectSeq(response, HasInsight)
    IN  Slice([i \in DOMAIN blocks |->
                  [ insight |-> blocks[i].insight,
                    evidenceNodeIds |->
                        EvidenceNodeIds(retrievedNodes, blocks[i].evidence) ]], 5)

----------------------------------------------------------------------------
\* lib/agents: AgentController

\* largest number of nodes the agent's store is grown to
MaxAgentNodes == 3

HoursPerDay == 24

\* Responses of the language model to the triple prompt
TripleParsed(description) ==
    [ subject |-> <<description[1]>>, predicate |-> <<description[2]>>,
      object |-> SubSeq(description, 3, Len(description)) ]
TripleUnparsed == [subject |-> Undefined, predicate |-> Undefined, object |-> Undefined]

\* The observations made in the model, each with the language model's
\* responses to its triple prompt and to its rating prompt
ObserveInputs ==
    { [description |-> Texts.reads, triple |-> TripleParsed(Texts.reads), rating |-> <<"7">>],
      [description |-> Texts.reads, triple |-> TripleUnparsed, rating |-> <<"profound">>],
      [description |-> Texts.idle, triple |-> TripleParsed(Texts.idle), rating |-> <<>>],
      [description |-> Texts.idleTalk, triple |-> TripleParsed(Texts.idleTalk),
       rating |-> <<"12", "of", "10">>] }

\* tick(newTime)
Tick(newTime) ==
    /\ run.pc = "idle"
    /\ newTime # scratch.currTime
    /\ scratch' = [scratch EXCEPT !.currTime = newTime]
    /\ lastOp' = [op |-> "tick"]
    /\ UNCHANGED <<ms, run, wallClock, observed>>
    /\ UNCHANGED <<dialogueVars, simVars>>

\* observe(description), all three gateway calls answered; the store is
\* grown to `limit` nodes
Observe(in, limit) ==
    /\ run.pc = "idle" /\ StoreHasRoom(limit)
    /\ LET created == scratch.currTime
           expiration == created + HoursPerDay
           triple == generateTriple(in.description, in.triple)
           poignancy == generatePoignancy(in.description, in.rating)
           a == AddArgs(created, expiration,
                        <<triple.subject, triple.predicate, triple.object>>,
                        in.description, poignancy,
                        <<in.description, EmbeddingOf(in.description)>>, <<>>)
       IN  /\ ms' = addEvent(ms, a)
           /\ scratch' = updateReflectionCounter(scratch, poignancy)
           /\ observed' = Append(observed, poignancy)
           /\ lastOp' = [ op |-> "observe", threw |-> FALSE, node |-> eventNode(ms, a),
                          description |-> in.description, rating |-> in.rating,
                          ratingCalls |-> PoignancyCalls(in.description) ]
    /\ UNCHANGED <<run, wallClock>>
    /\ UNCHANGED <<dialogueVars, simVars>>

\* observe(description), one of its gateway calls rejecting: observe rejects
\* before it has written anything
ObserveThrows ==
    /\ run.pc = "idle"
    /\ lastOp' = [op |-> "observe", threw |-> TRUE]
    /\ UNCHANGED <<ms, scratch, run, wallClock, observed>>
    /\ UNCHANGED <<dialogueVars, simVars>>

\* maybeReflect() when the trigger has not fired
MaybeReflectNotTriggered ==
    /\ run.pc = "idle"
    /\ ~shouldReflect(scratch)
    /\ lastOp' = [ op |-> "maybeReflect", threw |-> FALSE, triggered |-> FALSE,
                   result |-> <<>> ]
    /\ UNCHANGED <<ms, scratch, run, wallClock, observed>>
    /\ UNCHANGED <<dialogueVars, simVars>>

\* maybeReflect() when the trigger has fired: runReflection asks the
\* language model for focal points. before is history: the ids of the store
\* when the run starts.
MaybeReflectStart ==
    /\ run.pc = "idle"
    /\ shouldReflect(scratch)
    /\ run' = [pc |-> "focal", before |-> DOMAIN ms.idToNode]
    /\ lastOp' = [op |-> "call"]
    /\ UNCHANGED <<ms, scratch, wallClock, observed>>
    /\ UNCHANGED <<dialogueVars, simVars>>

\* runReflection's loop over the retrieved entries goes on: it skips the
\* entries without scored nodes and asks for the insights of the next one;
\* after the last entry runReflection returns and maybeReflect resets the
\* counter and keeps the first three descriptions as recentInsights.
\* newThoughts holds each new node with (history) the ids retrieved for its
\* focal point.
Continue(entries, newThoughts, before, step) ==
    LET HasNodes(entry) == entry.topNodes # <<>>
        rest == IF \E i \in DOMAIN entries : HasNodes(entries[i])
                THEN SubSeq(entries,
                            Min({i \in DOMAIN entries : HasNodes(entries[i])}),
                            Len(entries))
                ELSE <<>>
        firstThree == Slice(newThoughts, 3)
    IN  IF rest = <<>>
        THEN /\ run' = NoRun
             /\ scratch' = [resetReflectionCounter(scratch) EXCEPT
                              !.recentInsights =
                                  [i \in DOMAIN firstThree |->
                                      firstThree[i].node.description]]
             /\ observed' = <<>>
             /\ lastOp' = [ op |-> "maybeReflect", threw |-> FALSE,
                            triggered |-> TRUE, result |-> newThoughts,
                            before |-> before ]
        ELSE /\ run' = [ pc |-> "insights", entries |-> rest,
                         newThoughts |-> newThoughts, before |-> before ]
             /\ lastOp' = step
             /\ UNCHANGED <<scratch, observed>>

\* Responses of the language model to the focal-point prompt, as the
\* trimmed pieces between the list numbers
FocalResponses ==
    { <<>>,
      <<EmptyText, Texts.love>>,
      <<Texts.love, Texts.reads, Texts.love, Texts.reads>> }

\* The focal points arrive and retrieve is called with the default config
ReflectFocalPoints(response) ==
    /\ run.pc = "focal"
    /\ LET focalPoints == generateFocalPoints(response)
       IN  IF focalPoints = <<>>
           THEN Continue(<<>>, <<>>, run.before, [op |-> "focalPoints"])
           ELSE /\ run' = [ pc |-> "retrieve", caller |-> "maybeReflect",
                            focalPoints |-> focalPoints, cfg |-> DEFAULT_CONFIG,
                            results |-> <<>>, before |-> run.before ]
                /\ lastOp' = [op |-> "focalPoints"]
                /\ UNCHANGED <<scratch, observed>>
    /\ UNCHANGED <<ms, wallClock>>
    /\ UNCHANGED <<dialogueVars, simVars>>

\* One iteration of retrieve's loop over the focal points, in runReflection
ReflectRetrieveFocal ==
    /\ run.pc = "retrieve" /\ run.caller = "maybeReflect"
    /\ run.focalPoints # <<>>
    /\ LET step == FocalStep(run)
           results == ResultsSet(run.results, step.focalPoint, step.topNodes)
       IN  /\ ms' = TouchAll(ms, step.topNodes, wallClock)
           /\ IF Tail(run.focalPoints) = <<>>
              THEN Continue(results, <<>>, run.before, step)
              ELSE /\ run' = [run EXCEPT !.focalPoints = Tail(@), !.results = results]
                   /\ lastOp' = step
                   /\ UNCHANGED <<scratch, observed>>
    /\ UNCHANGED wallClock
    /\ UNCHANGED <<dialogueVars, simVars>>

\* Responses of the language model to the insight prompt, as blocks
InsightResponses ==
    { <<>>,
      << [insight |-> Texts.love, evidence |-> <<"0">>] >>,
      << [insight |-> Undefined, evidence |-> <<"0">>],
         [insight |-> Texts.love, evidence |-> <<"1", "x", "0", "7", "-3">>],
         [insight |-> Texts.idleTalk, evidence |-> <<"2", "1">>] >> }

\* The insights of the current entry arrive; the store is grown to `limit`
\* nodes
ReflectInsights(response, limit) ==
    /\ run.pc = "insights"
    /\ LET entry == Head(run.entries)
           insights == generateInsights(entry.topNodes, response)
       IN  /\ Len(insights) <= limit - Cardinality(DOMAIN ms.idToNode)
           /\ IF insights = <<>>
              THEN Continue(Tail(run.entries), run.newThoughts, run.before,
                            [op |-> "insights"])
              ELSE /\ run' = [ pc |-> "persist", pending |-> insights,
                               entries |-> run.entries,
                               newThoughts |-> run.newThoughts,
                               before |-> run.before ]
                   /\ lastOp' = [op |-> "insights"]
                   /\ UNCHANGED <<scratch, observed>>
    /\ UNCHANGED <<ms, wallClock>>
    /\ UNCHANGED <<dialogueVars, simVars>>

\* Responses of the language model to the triple and rating prompts of an insight
PersistInputs ==
    { [triple |-> TripleUnparsed, rating |-> <<"7">>],
      [triple |-> TripleUnparsed, rating |-> <<"-3">>] }

\* The triple, the poignancy and the embedding of the next insight arrive
\* and its thought is added
ReflectPersist(in) ==
    /\ run.pc = "persist"
    /\ LET next == Head(run.pending)
           created == scratch.currTime
           expiration == created + 30 * HoursPerDay
           triple == generateTriple(next.insight, in.triple)
           poignancy == generatePoignancy(next.insight, in.rating)
           a == AddArgs(created, expiration,
                        <<triple.subject, triple.predicate, triple.object>>,
                        next.insight, poignancy,
                        <<next.insight, EmbeddingOf(next.insight)>>,
                        next.evidenceNodeIds)
           topNodes == Head(run.entries).topNodes
           newThoughts ==
               Append(run.newThoughts,
                      [ node |-> thoughtNode(ms, a),
                        retrieved |-> {topNodes[i].node : i \in DOMAIN topNodes} ])
           step == [ op |-> "reflectThought", node |-> thoughtNode(ms, a),
                     description |-> next.insight, rating |-> in.rating,
                     ratingCalls |-> PoignancyCalls(next.insight) ]
       IN  /\ ms' = addThought(ms, a)
           /\ IF Tail(run.pending) = <<>>
              THEN Continue(Tail(run.entries), newThoughts, run.before, step)
              ELSE /\ run' = [run EXCEPT !.pending = Tail(@),
                                         !.newThoughts = newThoughts]
                   /\ lastOp' = step
                   /\ UNCHANGED <<scratch, observed>>
    /\ UNCHANGED wallClock
    /\ UNCHANGED <<dialogueVars, simVars>>

\* A language-model or embedding call of runReflection rejects: runReflection
\* and maybeReflect reject, and the counter is not reset
ReflectThrows ==
    /\ run.pc \in {"focal", "insights", "persist"}
    /\ run' = NoRun
    /\ lastOp' = [op |-> "maybeReflect", threw |-> TRUE]
    /\ UNCHANGED <<ms, scratch, wallClock, observed>>
    /\ UNCHANGED <<dialogueVars, simVars>>

NextAgent ==
    \/ \E newTime \in 0..1 : Tick(newTime)
    \/ ClockTick
    \/ \E in \in ObserveInputs : Observe(in, MaxAgentNodes)
    \/ ObserveThrows
    \/ MaybeReflectNotTriggered
    \/ MaybeReflectStart
    \/ \E response \in FocalResponses : ReflectFocalPoints(response)
    \/ ReflectRetrieveFocal
    \/ RetrieveThrows
    \/ \E response \in InsightResponses :
            ReflectInsights(response, MaxAgentNodes)
    \/ \E in \in PersistInputs : ReflectPersist(in)
    \/ ReflectThrows

SpecAgent == Init /\ [][NextAgent]_vars

\* A reflection run that writes several thoughts: the store is grown to
\* MaxReflectionNodes nodes by one kind of observation and by reflection
\* runs whose language model names three focal points, two of them the
\* same, and answers every insight prompt with the same blocks
MaxReflectionNodes == 5

ReflectionObserveInputs == {in \in ObserveInputs : in.rating = <<"7">>}
ReflectionFocalResponses == {r \in FocalResponses : Len(r) = 4}
ReflectionInsightResponses == {r \in InsightResponses : Len(r) # 1}
ReflectionPersistInputs == {in \in PersistInputs : in.rating = <<"7">>}

NextReflection ==
    \/ \E in \in ReflectionObserveInputs : Observe(in, MaxReflectionNodes)
    \/ MaybeReflectNotTriggered
    \/ MaybeReflectStart
    \/ \E response \in ReflectionFocalResponses : ReflectFocalPoints(response)
    \/ ReflectRetrieveFocal
    \/ \E response \in ReflectionInsightResponses :
            ReflectInsights(response, MaxReflectionNodes)
    \/ \E in \in ReflectionPersistInputs : ReflectPersist(in)
    \/ ReflectThrows

SpecReflection == Init /\ [][NextReflection]_vars

----------------------------------------------------------------------------
\* lib/agents: citations, core memories and conversations of the controller

\* largest number of nodes the store is grown to by a conversation
MaxConvNodes == 5

\* largest number of utterances kept in scratch.chat
MaxChat == 1


\* getLastChat that reads the far end of the keyword's list
getLastChatOldest(store, personName) ==
    LET chats == MapGet(store.kwToChat, toLowerCase(personName), <<>>)
    IN  IF chats = <<>> THEN NullText ELSE chats[Len(chats)]

\* getLastChat(personName): the id of the node, or null
getLastChat(store, personName) ==
    LET chats == MapGet(store.kwToChat, toLowerCase(personName), <<>>)
    IN  IF chats = <<>> THEN NullText ELSE chats[1]

\* The citations made in the model, each with the language model's
\* responses to its triple prompt and to its rating prompt
CiteInputs ==
    { [ sourceId |-> <<"symposium">>, passage |-> Texts.love,
        interpretation |-> Texts.reads,
        triple |-> TripleParsed(Texts.reads), rating |-> <<"12">>],
      [ sourceId |-> <<"symposium">>, passage |-> Texts.love,
        interpretation |-> Texts.idle,
        triple |-> TripleUnparsed, rating |-> <<"7">>] }

\* citeSource(sourceId, passage, interpretation), all three gateway calls
\* answered. ratingCalls is history: the calls generatePoignancy made.
CiteSource(in) ==
    /\ run.pc = "idle" /\ StoreHasRoom(MaxAgentNodes)
    /\ LET created == scratch.currTime
           triple == generateTriple(in.interpretation, in.triple)
           poignancy == generatePoignancy(in.interpretation, in.rating)
           a == [AddArgs(created, Null,
                         <<triple.subject, triple.predicate, triple.object>>,
                         in.interpretation, poignancy,
                         <<in.interpretation, EmbeddingOf(in.interpretation)>>, <<>>)
                   EXCEPT !.sourceId = in.sourceId, !.sourcePassage = in.passage]
       IN  /\ ms' = addSource(ms, a)
           /\ lastOp' = [ op |-> "citeSource", threw |-> FALSE,
                          node |-> sourceNode(ms, a),
                          description |-> in.interpretation, rating |-> in.rating,
                          ratingCalls |-> PoignancyCalls(in.interpretation) ]
    /\ UNCHANGED <<scratch, run, wallClock, observed>>
    /\ UNCHANGED <<dialogueVars, simVars>>

\* citeSource, one of its gateway calls rejecting
CiteSourceThrows ==
    /\ run.pc = "idle"
    /\ lastOp' = [op |-> "citeSource", threw |-> TRUE]
    /\ UNCHANGED <<ms, scratch, run, wallClock, observed>>
    /\ UNCHANGED <<dialogueVars, simVars>>

\* identity.coreBeliefs of the agents made in the model
CoreBeliefLists == {<<Texts.love>>, <<Texts.love, Texts.idleTalk>>}

\* The argument list of the addThought of one core belief
CoreBeliefArgs(belief, created) ==
    [ AddArgs(created, Null, <<AgentName, <<"believes">>, belief>>,
              AgentName \o <<"holds", "that:">> \o belief, 9,
              <<belief, EmbeddingOf(belief)>>, <<>>)
        EXCEPT !.keywords = {AgentName, <<"believes">>, <<belief[1]>>} ]

\* initializeCoreMemories: the loop over the core beliefs
RECURSIVE AddCoreBeliefs(_, _, _)
AddCoreBeliefs(store, beliefs, created) ==
    IF beliefs = <<>> THEN store
    ELSE AddCoreBeliefs(addThought(store, CoreBeliefArgs(Head(beliefs), created)),
                        Tail(beliefs), created)

\* initializeCoreMemories(controller, identity, getEmbedding), every
\* embedding call answered
InitializeCoreMemories(coreBeliefs) ==
    /\ run.pc = "idle"
    /\ Cardinality(DOMAIN ms.idToNode) + Len(coreBeliefs) <= MaxAgentNodes
    /\ ms' = AddCoreBeliefs(ms, coreBeliefs, scratch.currTime)
    /\ lastOp' = [op |-> "initializeCoreMemories", threw |-> FALSE]
    /\ UNCHANGED <<scratch, run, wallClock, observed>>
    /\ UNCHANGED <<dialogueVars, simVars>>

\* startConversation(otherAgentName, endTime)
StartConversation(otherAgentName, endTime) ==
    /\ run.pc = "idle"
    /\ scratch' = [scratch EXCEPT !.chattingWith = otherAgentName,
                                  !.chattingEndTime = endTime,
                                  !.chat = <<>>,
                                  !.sharesDefaultChat = FALSE]
    /\ lastOp' = [op |-> "startConversation"]
    /\ UNCHANGED <<ms, run, wallClock, observed>>
    /\ UNCHANGED <<dialogueVars, simVars>>

\* The array that `name`'s scratch.chat refers to is the one that `other`'s
\* refers to
SameChatArray(name, other) ==
    LET shares(n) == IF n = AgentName THEN scratch.sharesDefaultChat
                     ELSE others[n].sharesDefaultChat
    IN  name = other \/ (shares(name) /\ shares(other))

\* this.agent.scratch.chat.push(said) in the controller of `name`: the
\* array is written in place, for every agent whose field refers to it
Push(name, said) ==
    [ scratch |-> IF SameChatArray(name, AgentName)
                  THEN [scratch EXCEPT !.chat = Append(@, said)]
                  ELSE scratch,
      others |-> [n \in OtherNames |->
                    IF SameChatArray(name, n)
                    THEN [others[n] EXCEPT !.chat = Append(@, said)]
                    ELSE others[n]] ]

\* addUtterance(speaker, utterance)
AddUtterance(speaker, utterance) ==
    /\ run.pc = "idle"
    /\ Len(scratch.chat) < MaxChat
    /\ LET pushed == Push(AgentName, <<speaker, utterance>>)
       IN  scratch' = pushed.scratch /\ others' = pushed.others
    /\ lastOp' = [op |-> "addUtterance"]
    /\ UNCHANGED <<ms, run, wallClock, observed>>
    /\ UNCHANGED <<activeDialogues, dialogueCall, simVars>>

\* endConversation() on an agent whose chattingWith is null
EndConversationIdle ==
    /\ run.pc = "idle"
    /\ scratch.chattingWith = NullText
    /\ lastOp' = [ op |-> "endConversation", threw |-> FALSE,
                   conversing |-> FALSE, result |-> Null ]
    /\ UNCHANGED <<ms, scratch, run, wallClock, observed>>
    /\ UNCHANGED <<dialogueVars, simVars>>

\* endConversation() on a conversing agent: it asks for the embedding and
\* the poignancy of the chat description. wrote is history: the ids of the
\* nodes written by this call and by the rejected calls it retries.
EndConversationStart ==
    /\ run.pc = "idle"
    /\ scratch.chattingWith # NullText
    /\ Cardinality(DOMAIN ms.idToNode) + 3 <= MaxConvNodes
    /\ run' = [ pc |-> "chat", otherParticipant |-> scratch.chattingWith,
                created |-> scratch.currTime,
                wrote |-> IF lastOp.op = "endConversation" /\ lastOp.threw
                          THEN lastOp.wrote ELSE {} ]
    /\ lastOp' = [op |-> "call"]
    /\ UNCHANGED <<ms, scratch, wallClock, observed>>
    /\ UNCHANGED <<dialogueVars, simVars>>

\* Responses of the language model to a rating prompt of endConversation
ConvRatings == {<<"7">>, <<"profound">>}

\* The embedding and the poignancy arrive: the chat node is added, and
\* reflectOnConversation takes the last chat with the other participant as
\* evidence and asks for the planning thought
ConvAddChat(rating) ==
    /\ run.pc = "chat"
    /\ LET description == <<"Conversation", "with">> \o run.otherParticipant
                              \o <<"about", "philosophical", "matters">>
           expiration == run.created + 7 * HoursPerDay
           poignancy == generatePoignancy(description, rating)
           a == [ AddArgs(run.created, expiration,
                          <<AgentName, <<"conversed", "with">>, run.otherParticipant>>,
                          description, poignancy,
                          <<description, EmbeddingOf(description)>>, <<>>)
                    EXCEPT !.keywords = {AgentName, run.otherParticipant} ]
           lastChat == getLastChat(addChat(ms, a), run.otherParticipant)
       IN  /\ ms' = addChat(ms, a)
           /\ run' = [ pc |-> "planning", otherParticipant |-> run.otherParticipant,
                       chat |-> chatNode(ms, a),
                       wrote |-> run.wrote \cup {chatNode(ms, a).id},
                       evidence |-> IF lastChat = NullText THEN <<>> ELSE <<lastChat>> ]
           /\ lastOp' = [ op |-> "convChat", node |-> chatNode(ms, a),
                          description |-> description, rating |-> rating,
                          ratingCalls |-> PoignancyCalls(description) ]
    /\ UNCHANGED <<scratch, wallClock, observed>>
    /\ UNCHANGED <<dialogueVars, simVars>>

\* Responses of the language model in reflectOnConversation: the text of
\* the thought, and the responses to its triple and rating prompts
ConvThoughtInputs ==
    { [response |-> Texts.love, triple |-> TripleUnparsed, rating |-> <<"7">>],
      [response |-> <<"is", "idle">>, triple |-> TripleUnparsed, rating |-> <<"-3">>] }

\* The argument list of a thought of reflectOnConversation
ConvThoughtArgs(description, in, evidence) ==
    LET created == scratch.currTime
        expiration == created + 30 * HoursPerDay
        triple == generateTriple(description, in.triple)
    IN  AddArgs(created, expiration,
                <<triple.subject, triple.predicate, triple.object>>,
                description, generatePoignancy(description, in.rating),
                <<description, EmbeddingOf(description)>>, evidence)

\* The planning thought's responses arrive and it is added
ConvPlanning(in) ==
    /\ run.pc = "planning"
    /\ LET planningDescription ==
               <<"For">> \o AgentName \o <<"planning:">> \o in.response
           a == ConvThoughtArgs(planningDescription, in, run.evidence)
       IN  /\ ms' = addThought(ms, a)
           /\ run' = [run EXCEPT !.pc = "memo",
                                   !.wrote = @ \cup {thoughtNode(ms, a).id}] @@
                         [planningThought |-> thoughtNode(ms, a)]
           /\ lastOp' = [ op |-> "convThought", node |-> thoughtNode(ms, a),
                          description |-> planningDescription, rating |-> in.rating,
                          ratingCalls |-> PoignancyCalls(planningDescription) ]
    /\ UNCHANGED <<scratch, wallClock, observed>>
    /\ UNCHANGED <<dialogueVars, simVars>>

\* The memo's responses arrive and it is added; reflectOnConversation
\* returns and endConversation clears the conversation state
ConvMemo(in) ==
    /\ run.pc = "memo"
    /\ LET memoDescription == AgentName \o in.response
           a == ConvThoughtArgs(memoDescription, in, run.evidence)
       IN  /\ ms' = addThought(ms, a)
           /\ lastOp' = [ op |-> "endConversation", threw |-> FALSE,
                          conversing |-> TRUE,
                          wrote |-> run.wrote \cup {thoughtNode(ms, a).id},
                          result |-> [ planningThought |-> run.planningThought,
                                       memo |-> thoughtNode(ms, a) ],
                          chat |-> run.chat,
                          node |-> thoughtNode(ms, a),
                          description |-> memoDescription, rating |-> in.rating,
                          ratingCalls |-> PoignancyCalls(memoDescription) ]
    /\ scratch' = [scratch EXCEPT !.chattingWith = NullText,
                                  !.chattingEndTime = Null,
                                  !.chat = <<>>,
                                  !.sharesDefaultChat = FALSE]
    /\ run' = NoRun
    /\ UNCHANGED <<wallClock, observed>>
    /\ UNCHANGED <<dialogueVars, simVars>>

\* A gateway call of endConversation rejects: endConversation rejects and
\* what it has written stays
ConvThrows ==
    /\ run.pc \in {"chat", "planning", "memo"}
    /\ run' = NoRun
    /\ lastOp' = [ op |-> "endConversation", threw |-> TRUE, at |-> run.pc,
                   wrote |-> run.wrote ]
    /\ UNCHANGED <<ms, scratch, wallClock, observed>>
    /\ UNCHANGED <<dialogueVars, simVars>>

\* The conversations of one agent
NextConversation ==
    \/ \E newTime \in 0..1 : Tick(newTime)
    \/ \E other \in OtherNames : StartConversation(other, 1)
    \/ AddUtterance(AgentName, Texts.love)
    \/ EndConversationIdle
    \/ EndConversationStart
    \/ \E rating \in ConvRatings : ConvAddChat(rating)
    \/ \E in \in ConvThoughtInputs : ConvPlanning(in)
    \/ \E in \in ConvThoughtInputs : ConvMemo(in)
    \/ ConvThrows

SpecConversation == Init /\ [][NextConversation]_vars

\* The inputs taken where every writing operation of the controller is
\* exercised together
ControllerObserveInputs ==
    {in \in ObserveInputs : in.rating \in {<<"profound">>, <<>>}}
ControllerFocalResponses == {r \in FocalResponses : Len(r) = 2}
ControllerInsightResponses == {r \in InsightResponses : Len(r) = 1}
ControllerThoughtInputs == {in \in ConvThoughtInputs : in.rating = <<"-3">>}

\* The controller with all its writing operations
NextController ==
    \/ \E in \in ControllerObserveInputs : Observe(in, MaxAgentNodes)
    \/ ObserveThrows
    \/ \E in \in CiteInputs : CiteSource(in)
    \/ CiteSourceThrows
    \/ \E coreBeliefs \in CoreBeliefLists : InitializeCoreMemories(coreBeliefs)
    \/ StartConversation(<<"Plato">>, 1)
    \/ EndConversationIdle
    \/ EndConversationStart
    \/ \E rating \in ConvRatings : ConvAddChat(rating)
    \/ \E in \in ControllerThoughtInputs : ConvPlanning(in)
    \/ \E in \in ControllerThoughtInputs : ConvMemo(in)
    \/ ConvThrows
    \/ MaybeReflectNotTriggered
    \/ MaybeReflectStart
    \/ \E response \in ControllerFocalResponses : ReflectFocalPoints(response)
    \/ ReflectRetrieveFocal
    \/ RetrieveThrows
    \/ \E response \in ControllerInsightResponses :
            ReflectInsights(response, MaxAgentNodes)
    \/ \E in \in PersistInputs : ReflectPersist(in)
    \/ ReflectThrows

SpecController == Init /\ [][NextController]_vars

----------------------------------------------------------------------------
\* normalizeScores called on its own

\* Score maps of up to three keys, and ends of target ranges, in Scale units
ScoreKeys == {generateNodeId(i) : i \in 1..3}
ScoreValues == {0, Scale \div 2, Scale}
ScoreMaps ==
    UNION {[keys -> ScoreValues] : keys \in (SUBSET ScoreKeys) \ {{}}}
TargetEnds == {0, Scale, 2 * Scale}
TargetRanges == {r \in TargetEnds \X TargetEnds : r[1] <= r[2]}

NormalizeScores(scores, targetMin, targetMax) ==
    /\ lastOp' = [ op |-> "normalizeScores", scores |-> scores,
                   targetMin |-> targetMin, targetMax |-> targetMax,
                   result |-> normalizeScores(scores, targetMin, targetMax) ]
    /\ UNCHANGED <<ms, scratch, run, wallClock, observed>>
    /\ UNCHANGED <<dialogueVars, simVars>>

NextNormalize ==
    \E scores \in ScoreMaps : \E range \in TargetRanges :
        NormalizeScores(scores, range[1], range[2])

SpecNormalize == Init /\ [][NextNormalize]_vars

----------------------------------------------------------------------------
\* The controller's retrieval methods, next to a reflection run

\* { ...base, ...over }
Spread(base, over) ==
    [k \in DOMAIN base \cup DOMAIN over |->
        IF k \in DOMAIN over THEN over[k] ELSE base[k]]

\* The config object retrieveForTopic and retrieveForDialogue build from the
\* agent's scratch state
ScratchWeights(sc) ==
    [ recencyWeight |-> sc.recencyW, relevanceWeight |-> sc.relevanceW,
      importanceWeight |-> sc.importanceW, recencyDecay |-> sc.recencyDecay ]

\* retrieveForTopic(topic) is called: retrieve(memoryStream, [topic],
\* getEmbedding, {weights of the scratch state, maxResults = 30})
RetrieveForTopic(topic) ==
    /\ run.pc = "idle"
    /\ run' = [ pc |-> "retrieve", caller |-> "retrieveForTopic",
                focalPoints |-> <<topic>>,
                cfg |-> Spread(DEFAULT_CONFIG,
                               Spread(ScratchWeights(scratch), [maxResults |-> 30])),
                results |-> <<>> ]
    /\ lastOp' = [op |-> "call"]
    /\ UNCHANGED <<ms, scratch, wallClock, observed>>
    /\ UNCHANGED <<dialogueVars, simVars>>

\* retrieveForDialogue(topic, otherParticipant) is called: the function of
\* lib/retrieval first retrieves for the topic with the config it was given
RetrieveForDialogue(topic, otherParticipant) ==
    /\ run.pc = "idle"
    /\ run' = [ pc |-> "retrieve", caller |-> "retrieveForDialogue",
                focalPoints |-> <<topic>>,
                config |-> ScratchWeights(scratch),
                cfg |-> Spread(DEFAULT_CONFIG, ScratchWeights(scratch)),
                otherParticipant |-> otherParticipant, phase |-> "topical",
                results |-> <<>> ]
    /\ lastOp' = [op |-> "call"]
    /\ UNCHANGED <<ms, scratch, wallClock, observed>>
    /\ UNCHANGED <<dialogueVars, simVars>>

\* retrieve's loop body for the one focal point of a call made by
\* retrieveForTopic or retrieveForDialogue; after the topical retrieval
\* retrieveForDialogue retrieves for the other participant with
\* {...config, maxResults: 10}
ControllerRetrieveFocal ==
    /\ run.pc = "retrieve"
    /\ run.caller \in {"retrieveForTopic", "retrieveForDialogue"}
    /\ run.focalPoints # <<>>
    /\ LET step == FocalStep(run)
       IN  /\ ms' = TouchAll(ms, step.topNodes, wallClock)
           /\ run' = IF run.caller = "retrieveForDialogue" /\ run.phase = "topical"
                      THEN [run EXCEPT
                              !.focalPoints = <<run.otherParticipant>>,
                              !.cfg = Spread(DEFAULT_CONFIG,
                                             Spread(run.config, [maxResults |-> 10])),
                              !.phase = "relationship",
                              !.results = ResultsSet(@, step.focalPoint, step.topNodes)]
                      ELSE NoRun
           /\ lastOp' = step
    /\ UNCHANGED <<scratch, wallClock, observed>>
    /\ UNCHANGED <<dialogueVars, simVars>>

TopicObserveInputs == {in \in ObserveInputs : in.rating = <<"profound">>}

NextTopics ==
    \/ \E in \in TopicObserveInputs : Observe(in, MaxAgentNodes)
    \/ ClockTick
    \/ RetrieveForTopic(Texts.love)
    \/ RetrieveForDialogue(Texts.love, <<"Plato">>)
    \/ ControllerRetrieveFocal
    \/ RetrieveThrows
    \/ MaybeReflectStart
    \/ \E response \in ControllerFocalResponses : ReflectFocalPoints(response)
    \/ ReflectRetrieveFocal
    \/ \E response \in ControllerInsightResponses :
            ReflectInsights(response, MaxAgentNodes)
    \/ \E in \in PersistInputs : ReflectPersist(in)

SpecTopics == Init /\ [][NextTopics]_vars

----------------------------------------------------------------------------
\* lib/dialogue: the DialogueManager.
\*
\* The dialogues of the model are started by the modelled agent (AgentName)
\* with one of the other controllers as target. Of the other controllers the
\* model holds the conversation fields of their scratch state (others).
\* Dialogue ids (`dialogue_<time>_<random>`) are modelled as distinct; turn
\* ids, timestamps, citations and informingMemories of a turn are not held.
\* Calls on the manager may overlap: dialogueCall.calls holds the calls that
\* are waiting for the language model, dialogueCall.evicted the Dialogue
\* objects that were removed from activeDialogues (their callers still hold
\* them).

\* largest number of dialogues started
MaxDialogues == 2
\* a turn is only asked for while the dialogue has fewer turns than this
MaxTurns == 2
\* largest number of manager calls in flight at once
MaxDialogueCalls == 2
\* the smaller of two limits where a specification uses two: the dialogues
\* started where every classification response is tried, the turns asked
\* for where the whole life of dialogues is run
MaxMoveDialogues == 1

\* A blank or a line break inside a string whose pieces are listed
Blank == " "

\* String.prototype.trim
RECURSIVE trim(_)
trim(text) ==
    IF text = <<>> THEN text
    ELSE IF Head(text) = Blank THEN trim(Tail(text))
    ELSE IF text[Len(text)] = Blank THEN trim(SubSeq(text, 1, Len(text) - 1))
    ELSE text

\* validMoves of parseRhetoricMove, in the order of the array. A label is
\* listed by its pieces, so that `includes` sees "thesis" inside
\* "antithesis" and "synthesis" as it does on the characters.
validMoves ==
    << <<"thesis">>, <<"anti", "thesis">>, <<"syn", "thesis">>,
       <<"question">>, <<"objection">>, <<"clarification">>,
       <<"evidence">>, <<"concession">> >>

\* parseRhetoricMove(response): the first label of validMoves that the
\* trimmed, lower-cased response includes, 'clarification' if there is none
parseRhetoricMove(response) ==
    LET move == toLowerCase(trim(response))
        found == {i \in DOMAIN validMoves : Includes(move, validMoves[i])}
    IN  IF found = {} THEN <<"clarification">> ELSE validMoves[Min(found)]

\* The section of a summary that a regular expression of endDialogue
\* captures: the lines after the first `header` up to the first `stop` after
\* it, or up to the end. A summary is a sequence of lines, a line a text.
IndexOf(lines, from, header) ==
    LET at == {i \in from..Len(lines) : lines[i] = header}
    IN  IF at = {} THEN 0 ELSE Min(at)

Section(summary, header, stop) ==
    LET h == IndexOf(summary, 1, header)
        s == IF h = 0 THEN 0 ELSE IndexOf(summary, h + 1, stop)
    IN  [ matched |-> h # 0,
          lines |-> IF h = 0 THEN <<>>
                    ELSE IF s = 0 THEN SubSeq(summary, h + 1, Len(summary))
                    ELSE SubSeq(summary, h + 1, s - 1) ]

\* parseListItems(text): the lines without their leading bullets and blanks,
\* the empty ones dropped
RECURSIVE StripBullets(_)
StripBullets(line) ==
    IF line # <<>> /\ Head(line) \in {"-", "*", Blank}
    THEN StripBullets(Tail(line)) ELSE line

parseListItems(lines) ==
    LET stripped == [i \in DOMAIN lines |-> trim(StripBullets(lines[i]))]
        NonEmpty(line) == line # <<>>
    IN  SelectSeq(stripped, NonEmpty)

KeyInsightsHeader == <<"KEY INSIGHTS:">>
UnresolvedHeader == <<"UNRESOLVED:">>
SourcesHeader == <<"SOURCES:">>
\* a header that no line is: the `$` alternative alone
NoHeader == <<"$end">>

\* The dialogue after endDialogue has parsed `summary` into it
Summarized(dialogue, summary) ==
    LET insights == Section(summary, KeyInsightsHeader, UnresolvedHeader)
        unresolved == Section(summary, UnresolvedHeader, SourcesHeader)
        sources == Section(summary, SourcesHeader, NoHeader)
    IN  [dialogue EXCEPT
            !.keyInsights =
                IF insights.matched THEN parseListItems(insights.lines) ELSE @,
            !.unresolvedQuestions =
                IF unresolved.matched THEN parseListItems(unresolved.lines) ELSE @,
            !.sourcesDiscussed =
                IF sources.matched THEN parseListItems(sources.lines) ELSE @]

DialogueId(n) == <<"dialogue", n>>

\* startDialogue: the Dialogue object it builds
NewDialogue(id, initiator, target, topic, startTime) ==
    [ id |-> id,
      participants |-> <<initiator, target>>,
      style |-> "free",
      topic |-> trim(topic),
      startTime |-> startTime,
      endTime |-> Null,
      turns |-> <<>>,
      keyInsights |-> <<>>,
      unresolvedQuestions |-> <<>>,
      sourcesDiscussed |-> <<>> ]

\* new Date(dialogue.startTime.getTime() + 10 * 60 * 1000): an hour count
\* and the minutes past it
EstimatedEndTime(startTime) == <<startTime, 10>>

\* The Dialogue object with this id that callers hold: the one in
\* activeDialogues, or the one that was removed from it
DialogueObject(id) ==
    IF id \in DOMAIN activeDialogues THEN activeDialogues[id]
    ELSE dialogueCall.evicted[id]

\* The two maps after the object of dialogue `id` has been written
WithObject(id, dialogue) ==
    IF id \in DOMAIN activeDialogues
    THEN [active |-> MapSet(activeDialogues, id, dialogue),
          evicted |-> dialogueCall.evicted]
    ELSE [active |-> activeDialogues,
          evicted |-> MapSet(dialogueCall.evicted, id, dialogue)]

\* activeDialogues.delete(id)
MapDelete(m, k) == [x \in (DOMAIN m) \ {k} |-> m[x]]

FreeSlots == (1..MaxDialogueCalls) \ DOMAIN dialogueCall.calls

\* Ids a caller may pass: those of the dialogues started, and one of none
KnownIds == {DialogueId(n) : n \in 1..(MaxDialogues + 1)}

\* History kept in lastOp: the manager method that a step has entered and
\* the dialogue id it was given, or Resumed for a step that continues a call
Entry(method, id) == [method |-> method, dialogue |-> id]
Resumed == Entry("none", NullText)

\* dialogue.turns.length > 0: endDialogue asks for a summary
needsSummaryAlways(dialogue) == TRUE

needsSummary(dialogue) == Len(dialogue.turns) > 0

\* startDialogue after the topic is known: builds the dialogue, calls
\* startConversation on both controllers and puts the dialogue in the map
CommitDialogue(target, topic, waiting, entry) ==
    LET id == DialogueId(dialogueCall.count + 1)
        dialogue == NewDialogue(id, AgentName, target, topic, scratch.currTime)
        endTime == EstimatedEndTime(dialogue.startTime)
    IN  /\ scratch' = [scratch EXCEPT !.chattingWith = target,
                                      !.chattingEndTime = endTime,
                                      !.chat = <<>>,
                                      !.sharesDefaultChat = FALSE]
        /\ others' = [others EXCEPT ![target] =
                        [chattingWith |-> AgentName,
                         chattingEndTime |-> endTime,
                         chat |-> <<>>,
                         sharesDefaultChat |-> FALSE]]
        /\ activeDialogues' = MapSet(activeDialogues, id, dialogue)
        /\ dialogueCall' = [dialogueCall EXCEPT !.count = @ + 1,
                                                !.calls = waiting]
        /\ lastOp' = [op |-> "startDialogue", threw |-> FALSE,
                      dialogue |-> id, entry |-> entry]

\* The dialogues started and the startDialogue calls in flight
DialoguesBegun ==
    dialogueCall.count
      + Cardinality({s \in DOMAIN dialogueCall.calls :
                        dialogueCall.calls[s].op = "startDialogue"})

SuggestedTopics == {<<"Love", Blank>>}
TopicResponses == {<<Blank, "Love">>}

\* startDialogue(initiator, target, style, suggestedTopic) with a topic
StartDialogue(target, suggestedTopic, limit) ==
    /\ DialoguesBegun < limit
    /\ CommitDialogue(target, suggestedTopic, dialogueCall.calls,
                      Entry("startDialogue", NullText))
    /\ UNCHANGED <<ms, run, wallClock, observed>>
    /\ UNCHANGED simVars

\* startDialogue without a topic: it asks the language model for one
StartDialogueAsk(target, limit) ==
    /\ DialoguesBegun < limit
    /\ FreeSlots # {}
    /\ dialogueCall' = [dialogueCall EXCEPT !.calls =
            MapSet(@, Min(FreeSlots),
                   [op |-> "startDialogue", pc |-> "topic", target |-> target])]
    /\ lastOp' = [op |-> "call", entry |-> Entry("startDialogue", NullText)]
    /\ UNCHANGED <<agentVars, activeDialogues, others>>
    /\ UNCHANGED simVars

\* startDialogue resumes with the language model's topic
StartDialogueTopic(slot, topic) ==
    /\ slot \in DOMAIN dialogueCall.calls
    /\ dialogueCall.calls[slot].op = "startDialogue"
    /\ CommitDialogue(dialogueCall.calls[slot].target, topic,
                      MapDelete(dialogueCall.calls, slot), Resumed)
    /\ UNCHANGED <<ms, run, wallClock, observed>>
    /\ UNCHANGED simVars

\* generateTurn or endDialogue on an id that is not in activeDialogues
DialogueNotFound(op, id) ==
    /\ id \notin DOMAIN activeDialogues
    /\ lastOp' = [op |-> op, threw |-> TRUE, error |-> "not found",
                  dialogue |-> id, entry |-> Entry(op, id)]
    /\ UNCHANGED <<agentVars, dialogueVars>>
    /\ UNCHANGED simVars

GenerateTurnNotFound(id) == DialogueNotFound("generateTurn", id)

EndDialogueNotFound(id) == DialogueNotFound("endDialogue", id)

\* generateTurn(dialogueId, speaker, context): it asks for the utterance
GenerateTurnStart(id, speaker, limit) ==
    /\ id \in DOMAIN activeDialogues
    /\ Len(activeDialogues[id].turns) < limit
    /\ FreeSlots # {}
    /\ dialogueCall' = [dialogueCall EXCEPT !.calls =
            MapSet(@, Min(FreeSlots),
                   [op |-> "generateTurn", pc |-> "utterance",
                    dialogue |-> id, speaker |-> speaker])]
    /\ lastOp' = [op |-> "call", entry |-> Entry("generateTurn", id)]
    /\ UNCHANGED <<agentVars, activeDialogues, others>>
    /\ UNCHANGED simVars

Utterances == {<<"Love", "binds", "all", Blank>>}

\* generateTurn that records the utterance with the speaker as soon as it
\* has it, before the classification
GenerateTurnUtteranceRecorded(slot, utterance) ==
    /\ slot \in DOMAIN dialogueCall.calls
    /\ dialogueCall.calls[slot].op = "generateTurn"
    /\ dialogueCall.calls[slot].pc = "utterance"
    /\ dialogueCall' = [dialogueCall EXCEPT !.calls[slot] =
            [op |-> "generateTurn", pc |-> "classify",
             dialogue |-> @.dialogue, speaker |-> @.speaker,
             utterance |-> utterance]]
    /\ LET speaker == dialogueCall.calls[slot].speaker
           pushed == Push(speaker, <<speaker, trim(utterance)>>)
       IN  scratch' = pushed.scratch /\ others' = pushed.others
    /\ lastOp' = [op |-> "continue", entry |-> Resumed]
    /\ UNCHANGED <<ms, run, wallClock, observed, activeDialogues>>
    /\ UNCHANGED simVars

\* generateTurn resumes with the utterance and asks for its classification
GenerateTurnUtterance(slot, utterance) ==
    /\ slot \in DOMAIN dialogueCall.calls
    /\ dialogueCall.calls[slot].op = "generateTurn"
    /\ dialogueCall.calls[slot].pc = "utterance"
    /\ dialogueCall' = [dialogueCall EXCEPT !.calls[slot] =
            [op |-> "generateTurn", pc |-> "classify",
             dialogue |-> @.dialogue, speaker |-> @.speaker,
             utterance |-> utterance]]
    /\ lastOp' = [op |-> "continue", entry |-> Resumed]
    /\ UNCHANGED <<agentVars, activeDialogues, others>>
    /\ UNCHANGED simVars

MoveResponses ==
    Range(validMoves)
    \cup { <<Blank, "Anti", "thesis", Blank>>,
           <<"Syn", "thesis">>,
           <<"Evidence", Blank>>,
           <<"a", "question", "of", "method">>,
           <<"a", "rebuttal">>,
           <<>> }

\* generateTurn resumes with the classification: it pushes the turn on the
\* dialogue it holds and calls speaker.addUtterance
GenerateTurnClassify(slot, moveResponse) ==
    /\ slot \in DOMAIN dialogueCall.calls
    /\ dialogueCall.calls[slot].op = "generateTurn"
    /\ dialogueCall.calls[slot].pc = "classify"
    /\ LET call == dialogueCall.calls[slot]
           turn == [ speakerName |-> call.speaker,
                     utterance |-> trim(call.utterance),
                     rhetoricMove |-> parseRhetoricMove(moveResponse) ]
           dialogue == [DialogueObject(call.dialogue) EXCEPT
                            !.turns = Append(@, turn)]
           maps == WithObject(call.dialogue, dialogue)
           said == <<call.speaker, turn.utterance>>
       IN  /\ activeDialogues' = maps.active
           /\ dialogueCall' = [dialogueCall EXCEPT
                    !.calls = MapDelete(@, slot),
                    !.evicted = maps.evicted]
           /\ LET pushed == Push(call.speaker, said)
              IN  scratch' = pushed.scratch /\ others' = pushed.others
           /\ lastOp' = [op |-> "generateTurn", threw |-> FALSE,
                         dialogue |-> call.dialogue,
                         moveResponse |-> moveResponse, turn |-> turn,
                         entry |-> Resumed]
    /\ UNCHANGED <<ms, run, wallClock, observed>>
    /\ UNCHANGED simVars

\* endDialogue(dialogueId) on an active dialogue with no turn: it stamps
\* endTime, removes the dialogue and returns it, with no await
EndDialogueEmpty(id) ==
    /\ id \in DOMAIN activeDialogues
    /\ ~needsSummary(activeDialogues[id])
    /\ LET dialogue == [activeDialogues[id] EXCEPT !.endTime = wallClock]
       IN  /\ activeDialogues' = MapDelete(activeDialogues, id)
           /\ dialogueCall' = [dialogueCall EXCEPT
                    !.evicted = MapSet(@, id, dialogue)]
           /\ lastOp' = [op |-> "endDialogue", threw |-> FALSE,
                         dialogue |-> id, llmCalls |-> 0,
                         entry |-> Entry("endDialogue", id)]
    /\ UNCHANGED <<agentVars, others>>
    /\ UNCHANGED simVars

\* endDialogue on an active dialogue with turns: it stamps endTime and asks
\* the language model for the summary
EndDialogueStart(id) ==
    /\ id \in DOMAIN activeDialogues
    /\ needsSummary(activeDialogues[id])
    /\ FreeSlots # {}
    /\ activeDialogues' = [activeDialogues EXCEPT ![id].endTime = wallClock]
    /\ dialogueCall' = [dialogueCall EXCEPT !.calls =
            MapSet(@, Min(FreeSlots),
                   [op |-> "endDialogue", pc |-> "summary", dialogue |-> id])]
    /\ lastOp' = [op |-> "call", entry |-> Entry("endDialogue", id)]
    /\ UNCHANGED <<agentVars, others>>
    /\ UNCHANGED simVars

Summaries ==
    { << KeyInsightsHeader, <<"-", Blank, "Love", "binds", "all">>,
         UnresolvedHeader, <<"-", Blank, "what", "is", "the", "soul">>,
         SourcesHeader, <<"*", Blank, "Symposium">>, <<>> >>,
      << KeyInsightsHeader, <<"Love", "binds", "all">>,
         SourcesHeader, <<"Symposium">> >> }

\* endDialogue resumes with the summary: it parses the sections into the
\* dialogue it holds, removes the id from the map and returns the dialogue
EndDialogueSummary(slot, summary) ==
    /\ slot \in DOMAIN dialogueCall.calls
    /\ dialogueCall.calls[slot].op = "endDialogue"
    /\ LET id == dialogueCall.calls[slot].dialogue
           dialogue == Summarized(DialogueObject(id), summary)
       IN  /\ activeDialogues' = MapDelete(activeDialogues, id)
           /\ dialogueCall' = [dialogueCall EXCEPT
                    !.calls = MapDelete(@, slot),
                    !.evicted = MapSet(@, id, dialogue)]
           /\ lastOp' = [op |-> "endDialogue", threw |-> FALSE,
                         dialogue |-> id, llmCalls |-> 1,
                         entry |-> Resumed]
    /\ UNCHANGED <<agentVars, others>>
    /\ UNCHANGED simVars

\* The language model call that a manager call waits for rejects: nothing
\* in the manager catches it, the call rejects
DialogueCallThrows(slot) ==
    /\ slot \in DOMAIN dialogueCall.calls
    /\ dialogueCall' = [dialogueCall EXCEPT !.calls = MapDelete(@, slot)]
    /\ lastOp' = [op |-> dialogueCall.calls[slot].op, threw |-> TRUE,
                  error |-> "gateway", entry |-> Resumed]
    /\ UNCHANGED <<agentVars, activeDialogues, others>>
    /\ UNCHANGED simVars

DialogueSlots == 1..MaxDialogueCalls

\* The whole life of dialogues between the agent and one target, with the
\* agent as speaker and one classification of a turn
DialogueTarget == <<"Plato">>
DialogueSpeakers == {AgentName}
DialogueMoveResponses == {<<"question">>}

NextDialogue ==
    \/ ClockTick
    \/ \E topic \in SuggestedTopics :
            StartDialogue(DialogueTarget, topic, MaxDialogues)
    \/ StartDialogueAsk(DialogueTarget, MaxDialogues)
    \/ \E slot \in DialogueSlots : \E topic \in TopicResponses :
            StartDialogueTopic(slot, topic)
    \/ \E id \in KnownIds : GenerateTurnNotFound(id)
    \/ \E id \in KnownIds : EndDialogueNotFound(id)
    \/ \E id \in KnownIds : \E speaker \in DialogueSpeakers :
            GenerateTurnStart(id, speaker, MaxMoveDialogues)
    \/ \E slot \in DialogueSlots : \E utterance \in Utterances :
            GenerateTurnUtterance(slot, utterance)
    \/ \E slot \in DialogueSlots : \E moveResponse \in DialogueMoveResponses :
            GenerateTurnClassify(slot, moveResponse)
    \/ \E id \in KnownIds : EndDialogueEmpty(id)
    \/ \E id \in KnownIds : EndDialogueStart(id)
    \/ \E slot \in DialogueSlots : \E summary \in Summaries :
            EndDialogueSummary(slot, summary)
    \/ \E slot \in DialogueSlots : DialogueCallThrows(slot)

SpecDialogue == Init /\ [][NextDialogue]_vars

\* The turns of one dialogue, with every classification response
NextMoves ==
    \/ \E topic \in SuggestedTopics :
            StartDialogue(<<"Plato">>, topic, MaxMoveDialogues)
    \/ \E speaker \in {AgentName, <<"Plato">>} :
            GenerateTurnStart(DialogueId(1), speaker, MaxTurns)
    \/ \E slot \in DialogueSlots : \E utterance \in Utterances :
            GenerateTurnUtterance(slot, utterance)
    \/ \E slot \in DialogueSlots : \E moveResponse \in MoveResponses :
            GenerateTurnClassify(slot, moveResponse)
    \/ \E slot \in DialogueSlots : DialogueCallThrows(slot)

SpecMoves == Init /\ [][NextMoves]_vars

----------------------------------------------------------------------------
\* lib/simulation: the conversation loop and the thought loop of the page.
\*
\* Positions are not held: whether two agents are within
\* CONVERSATION_DISTANCE, and every Math.random(), is a choice of the
\* environment. Real-time stamps (Date.now(): lastConversationCheck,
\* lastThoughtTime, the timestamps of turns and memories) are not held
\* either: the throttles that read them are choices of the environment.
\* A handleConversations call that waits for a dialogue turn is a record of
\* calls.ticks; the step that completes the request and the step that resumes
\* the waiting call are separate.

\* latest simulation time, in units of 5000 ms
MaxSimTime == 2
\* largest number of conversations started
MaxConversations == 1
\* largest number of handleConversations calls waiting at once
MaxTicks == 2
\* a thought is only started for an agent whose memoryStream has had fewer
\* entries than this
MaxSimMemories == 1
\* largest number of generateThought calls outstanding for one agent
MaxThoughtCalls == 2

\* MAX_CONVERSATION_TURNS
MAX_CONVERSATION_TURNS == 6
\* the cooldown of findConversationCandidates (15000 ms), in units of 5000 ms
ConversationCooldown == 3

\* The states of an agent that is not conversing
MoveStates == {"idle", "walking", "reading"}

ConversationId(n) == <<"conv", n>>

\* startConversation(state, agent1, agent2), the conversation getting `id`
startConversation(st, id, agent1, agent2) ==
    [st EXCEPT
        !.agents[agent1].state = "conversing",
        !.agents[agent1].conversationPartner = agent2,
        !.agents[agent2].state = "conversing",
        !.agents[agent2].conversationPartner = agent1,
        !.activeConversation =
            << [ id |-> id,
                 participants |-> <<agent1, agent2>>,
                 turns |-> <<>>,
                 startTime |-> st.time,
                 isGenerating |-> FALSE ] >>]

\* an ending that updates the first participant only
endConversationOfInitiator(st) ==
    IF st.activeConversation = <<>> THEN st
    ELSE LET conv == st.activeConversation[1]
         IN  [st EXCEPT
                !.agents[conv.participants[1]] =
                    [@ EXCEPT !.state = "idle",
                              !.conversationPartner = NoPartner,
                              !.lastConversationTime = st.time],
                !.conversationHistory = Append(@, conv),
                !.activeConversation = <<>>]

\* endConversation(state)
endConversation(st) ==
    IF st.activeConversation = <<>> THEN st
    ELSE LET conv == st.activeConversation[1]
         IN  [st EXCEPT
                !.agents = [a \in SimAgents |->
                    IF a \in Range(conv.participants)
                    THEN [@[a] EXCEPT !.state = "idle",
                                      !.conversationPartner = NoPartner,
                                      !.lastConversationTime = st.time]
                    ELSE @[a]],
                !.conversationHistory = Append(@, conv),
                !.activeConversation = <<>>]

\* addTurn(conversation, speakerId, speakerName, text)
addTurn(conversation, speakerId, text) ==
    [conversation EXCEPT
        !.turns = Append(@, [speakerId |-> speakerId, text |-> text])]

\* shouldEndConversation with a limit that is one turn late
shouldEndConversationLate(conversation) ==
    Len(conversation.turns) > MAX_CONVERSATION_TURNS

\* shouldEndConversation(conversation)
shouldEndConversation(conversation) ==
    Len(conversation.turns) >= MAX_CONVERSATION_TURNS

\* getNextSpeaker that draws the speaker of every turn as it draws the first
getNextSpeakerDrawn(conversation, random) ==
    conversation.participants[random]

\* getNextSpeaker(conversation, agents): random is Math.floor(Math.random()
\* * 2) + 1. Every participant id is the id of an agent, so `find` finds it.
getNextSpeaker(conversation, random) ==
    IF conversation.turns = <<>> THEN conversation.participants[random]
    ELSE LET last == conversation.turns[Len(conversation.turns)].speakerId
         IN  IF conversation.participants[1] # last
             THEN conversation.participants[1]
             ELSE conversation.participants[2]

\* findConversationCandidates(state): the values it may return, <<>> for
\* null. A pair is in array order; both agents are not conversing and past
\* the cooldown; distance and chance decide among the pairs and null.
Eligible(st, a) ==
    /\ st.agents[a].state # "conversing"
    /\ ~(st.time - st.agents[a].lastConversationTime < ConversationCooldown)

findConversationCandidates(st) ==
    {<<>>} \cup
    { <<SimAgentIds[p[1]], SimAgentIds[p[2]]>> :
        p \in { q \in (DOMAIN SimAgentIds) \X (DOMAIN SimAgentIds) :
                    /\ q[1] < q[2]
                    /\ Eligible(st, SimAgentIds[q[1]])
                    /\ Eligible(st, SimAgentIds[q[2]]) } }

\* The module variables and the state object that a handleConversations
\* call reads and writes, and the calls in flight
World ==
    [state |-> state, isGeneratingDialogue |-> isGeneratingDialogue,
     calls |-> calls]

\* The conversation object with this id, held by the dialogue-turn request
\* that was started for it: the active conversation or an archived one
ConversationOf(st, id) ==
    IF st.activeConversation # <<>> /\ st.activeConversation[1].id = id
    THEN st.activeConversation[1]
    ELSE LET at == CHOOSE i \in DOMAIN st.conversationHistory :
                        st.conversationHistory[i].id = id
         IN  st.conversationHistory[at]

WithConversation(st, id, conv) ==
    IF st.activeConversation # <<>> /\ st.activeConversation[1].id = id
    THEN [st EXCEPT !.activeConversation = <<conv>>]
    ELSE [st EXCEPT !.conversationHistory =
            [i \in DOMAIN st.conversationHistory |->
                IF st.conversationHistory[i].id = id THEN conv
                ELSE st.conversationHistory[i]]]

\* generateDialogueTurn(state) up to its first await, called by the
\* handleConversations call that then waits for it in `slot`: it returns
\* null at once when there is no conversation or one is generating,
\* otherwise it picks the speaker, sets conv.isGenerating and sends the
\* requests
CallGenerateDialogueTurn(w, slot, pc, random) ==
    IF \/ w.state.activeConversation = <<>>
       \/ w.state.activeConversation[1].isGenerating
    THEN [w EXCEPT !.calls.ticks =
            MapSet(w.calls.ticks, slot,
                   [pc |-> pc, turn |-> "returned", result |-> "null"])]
    ELSE LET conv == w.state.activeConversation[1]
             speaker == getNextSpeaker(conv, random)
         IN  [w EXCEPT
                !.state.activeConversation =
                    <<[conv EXCEPT !.isGenerating = TRUE]>>,
                !.calls.ticks =
                    MapSet(w.calls.ticks, slot,
                           [pc |-> pc, turn |-> "fetching",
                            conv |-> conv.id, speaker |-> speaker])]

\* handleConversations, "Continue active conversation": it ends the
\* conversation at the turn limit, otherwise it generates the next turn
\* unless one is being generated
ContinueConversation(w, slot, random) ==
    IF w.state.activeConversation = <<>> THEN w
    ELSE IF shouldEndConversation(w.state.activeConversation[1])
    THEN [w EXCEPT !.state = endConversation(w.state)]
    ELSE IF /\ ~w.state.activeConversation[1].isGenerating
            /\ ~w.isGeneratingDialogue
    THEN CallGenerateDialogueTurn(
            [w EXCEPT !.isGeneratingDialogue = TRUE], slot, "next", random)
    ELSE w

FreeTickSlots == (1..MaxTicks) \ DOMAIN calls.ticks

\* handleConversations, first line: the call goes on
TickEnters == ~state.isPaused /\ ~isGeneratingDialogue

\* handleConversations while paused or while the flag is set: it returns
HandleConversationsDropped ==
    /\ ~TickEnters
    /\ lastOp' = [op |-> "handleConversations", entered |-> FALSE]
    /\ UNCHANGED <<agentVars, dialogueVars, simVars>>

\* handleConversations(state, onStateChange) up to its first await or its
\* return. throttled: more than a second has passed since the last check;
\* candidates: what findConversationCandidates returns; random: the first
\* speaker drawn by getNextSpeaker. At most `limit` conversations are
\* started.
HandleConversations(throttled, candidates, random, limit) ==
    /\ TickEnters
    /\ FreeTickSlots # {}
    /\ candidates \in findConversationCandidates(state)
    /\ candidates # <<>> => calls.count < limit
    /\ LET slot == Min(FreeTickSlots)
           starts == /\ state.activeConversation = <<>>
                     /\ throttled
                     /\ candidates # <<>>
           started ==
                [ state |-> startConversation(state,
                                ConversationId(calls.count + 1),
                                candidates[1], candidates[2]),
                  isGeneratingDialogue |-> TRUE,
                  calls |-> [calls EXCEPT !.count = @ + 1] ]
           w == IF starts
                THEN CallGenerateDialogueTurn(started, slot, "first", random)
                ELSE ContinueConversation(World, slot, random)
       IN  /\ state' = w.state
           /\ isGeneratingDialogue' = w.isGeneratingDialogue
           /\ calls' = w.calls
    /\ lastOp' = [op |-> "handleConversations", entered |-> TRUE]
    /\ UNCHANGED <<agentVars, dialogueVars>>

\* the text of a generated turn
DialogueText == <<"Love", "binds", "all">>

\* The requests of generateDialogueTurn complete: with a text the turn is
\* added, with a failure (rejected fetch, status not OK) it is not; the
\* finally block clears conv.isGenerating
GenerateDialogueTurnCompletes(slot, ok) ==
    /\ slot \in DOMAIN calls.ticks
    /\ calls.ticks[slot].turn = "fetching"
    /\ LET tick == calls.ticks[slot]
           conv == ConversationOf(state, tick.conv)
           turned == IF ok THEN addTurn(conv, tick.speaker, DialogueText)
                     ELSE conv
           done == [turned EXCEPT !.isGenerating = FALSE]
       IN  /\ state' = WithConversation(state, tick.conv, done)
           /\ calls' = [calls EXCEPT !.ticks[slot] =
                            [pc |-> tick.pc, turn |-> "returned",
                             result |-> IF ok THEN "text" ELSE "null"]]
    /\ lastOp' = [op |-> "generateDialogueTurn", ok |-> ok]
    /\ UNCHANGED <<agentVars, dialogueVars, isGeneratingDialogue>>

\* handleConversations resumes after `await generateDialogueTurn(state)`
\* with its result, the text or null: it clears the flag; after the first turn of a new conversation it goes on to
\* "Continue active conversation", after a next turn it returns
HandleConversationsResumes(slot, random) ==
    /\ slot \in DOMAIN calls.ticks
    /\ calls.ticks[slot].turn = "returned"
    /\ LET tick == calls.ticks[slot]
           resumed == [ state |-> state,
                        isGeneratingDialogue |-> FALSE,
                        calls |-> [calls EXCEPT
                                      !.ticks = MapDelete(@, slot)] ]
           w == IF tick.pc = "first"
                THEN ContinueConversation(resumed, slot, random)
                ELSE resumed
       IN  /\ state' = w.state
           /\ isGeneratingDialogue' = w.isGeneratingDialogue
           /\ calls' = w.calls
    /\ lastOp' = [op |-> "resume", pc |-> calls.ticks[slot].pc,
                   result |-> calls.ticks[slot].result]
    /\ UNCHANGED <<agentVars, dialogueVars>>

\* togglePause of the page
TogglePause ==
    /\ state' = [state EXCEPT !.isPaused = ~@]
    /\ lastOp' = [op |-> "togglePause"]
    /\ UNCHANGED <<agentVars, dialogueVars, isGeneratingDialogue, calls>>

\* updateMovement(state, deltaTime) while running: time advances and
\* updateAgentMovement moves the agents that are not conversing. next: the
\* state each of them is left in; moved: the agents the loop does not
\* skip. Time is followed up to `limit`.
UpdateMovement(deltaTime, next, limit) ==
    /\ ~state.isPaused
    /\ state.time + deltaTime <= limit
    /\ LET agents == state.agents
       IN  state' = [state EXCEPT
                !.time = @ + deltaTime,
                !.agents = [a \in SimAgents |->
                    IF agents[a].state = "conversing" THEN agents[a]
                    ELSE [agents[a] EXCEPT !.state = next[a]]]]
    /\ lastOp' = [ op |-> "updateMovement",
                   moved |-> {a \in SimAgents :
                                state.agents[a].state # "conversing"} ]
    /\ UNCHANGED <<agentVars, dialogueVars, isGeneratingDialogue, calls>>

\* the loop of generateAgentThoughts without its first test
ThoughtCandidateWhileGenerating(agent, due) ==
    /\ agent.state # "conversing"
    /\ due

\* generateAgentThoughts, the tests of the loop: the agent is not generating
\* a thought, is not conversing and its interval has passed
ThoughtCandidate(agent, due) ==
    /\ ~agent.isGeneratingThought
    /\ agent.state # "conversing"
    /\ due

\* generateAgentThoughts while paused: it returns
GenerateAgentThoughtsPaused ==
    /\ state.isPaused
    /\ lastOp' = [op |-> "generateAgentThoughts", entered |-> FALSE]
    /\ UNCHANGED <<agentVars, dialogueVars, simVars>>

\* MAX_MEMORIES
MAX_MEMORIES == 50

\* generateId(): `mem_<now>_<random>`, modelled as distinct numbers in the
\* order of creation
NextMemoryId(stream) == Max({0} \cup {stream[i].id : i \in DOMAIN stream}) + 1

\* The comparator of trimMemories' first sort: higher importance first,
\* then the later timestamp first
CompareKept(a, b) ==
    IF a.importance # b.importance THEN b.importance - a.importance
    ELSE b.timestamp - a.timestamp

\* The comparator of trimMemories' second sort
CompareTimestamp(a, b) == a.timestamp - b.timestamp

\* Array.prototype.sort with a comparator: stable. The element at index i
\* comes after the elements the comparator puts before it and after the
\* earlier elements it ties with.
SortWith(s, Compare(_, _)) ==
    LET rank == [i \in DOMAIN s |->
                    Cardinality({j \in DOMAIN s :
                                    \/ Compare(s[j], s[i]) < 0
                                    \/ (Compare(s[j], s[i]) = 0 /\ j < i)}) + 1]
    IN  [k \in DOMAIN s |-> s[CHOOSE i \in DOMAIN s : rank[i] = k]]

\* a trim that keeps the latest MAX_MEMORIES entries whatever their importance
trimMemoriesByAge(stream) ==
    IF Len(stream) > MAX_MEMORIES
    THEN LET Latest(a, b) == b.timestamp - a.timestamp
         IN  SortWith(Slice(SortWith(stream, Latest), MAX_MEMORIES),
                      CompareTimestamp)
    ELSE stream

\* trimMemories(agent), as the stream it leaves
trimMemories(stream) ==
    IF Len(stream) > MAX_MEMORIES
    THEN SortWith(Slice(SortWith(stream, CompareKept), MAX_MEMORIES),
                  CompareTimestamp)
    ELSE stream

\* generateAgentThoughts(state, onUpdate). due: the agents whose interval
\* has passed. The first candidate in array order starts a thought, which
\* is not awaited. A thought is only started for an agent whose stream has
\* had fewer than `limit` entries.
GenerateAgentThoughts(due, limit) ==
    /\ ~state.isPaused
    /\ \A a \in due : /\ NextMemoryId(state.agents[a].memoryStream) <= limit
                      /\ calls.thoughts[a] < MaxThoughtCalls
    /\ LET found == {i \in DOMAIN SimAgentIds :
                        ThoughtCandidate(state.agents[SimAgentIds[i]],
                                         SimAgentIds[i] \in due)}
       IN  IF found = {} THEN UNCHANGED <<state, calls>>
           ELSE LET a == SimAgentIds[Min(found)]
                IN  /\ state' = [state EXCEPT
                            !.agents[a].isGeneratingThought = TRUE]
                    /\ calls' = [calls EXCEPT !.thoughts[a] = @ + 1]
    /\ lastOp' = [op |-> "generateAgentThoughts", entered |-> TRUE]
    /\ UNCHANGED <<agentVars, dialogueVars, isGeneratingDialogue>>

\* What generateThought resolves to: <<>> for null (the request failed),
\* otherwise the entry, an observation if the agent is reading; its
\* importance is 7 with source passages and 5 or 6 without
ThoughtResults(agent) ==
    {<<>>} \cup
    { << [ type |-> IF agent.state = "reading" THEN "observation"
                    ELSE "thought",
           importance |-> importance ] >> : importance \in {5, 6, 7} }

\* The entry generateThought or addMemory builds: id: generateId(),
\* timestamp: Date.now()
MemoryEntry(stream, type, importance) ==
    [ id |-> NextMemoryId(stream), type |-> type, importance |-> importance,
      timestamp |-> wallClock ]

\* generateThought resolves and the `then` callback of generateAgentThoughts
\* runs: the flag is cleared and the memory, if there is one, is pushed and
\* the stream trimmed.
GenerateThoughtCompletes(a, memory) ==
    /\ calls.thoughts[a] > 0
    /\ memory \in ThoughtResults(state.agents[a])
    /\ LET stream == state.agents[a].memoryStream
           entry == [i \in DOMAIN memory |->
                        MemoryEntry(stream, memory[i].type, memory[i].importance)]
       IN  /\ state' = [state EXCEPT
                   !.agents[a].isGeneratingThought = FALSE,
                   !.agents[a].memoryStream = trimMemories(stream \o entry)]
           /\ lastOp' = [op |-> "generateThought", agent |-> a,
                          memory |-> memory # <<>>, entry |-> entry]
    /\ calls' = [calls EXCEPT !.thoughts[a] = @ - 1]
    /\ UNCHANGED <<agentVars, dialogueVars, isGeneratingDialogue>>

\* addMemory(agent, type, content, importance), for an agent whose stream
\* has had fewer than `limit` entries
AddMemory(a, type, importance, limit) ==
    /\ NextMemoryId(state.agents[a].memoryStream) <= limit
    /\ LET stream == state.agents[a].memoryStream
           entry == MemoryEntry(stream, type, importance)
       IN  /\ state' = [state EXCEPT
                   !.agents[a].memoryStream = trimMemories(stream \o <<entry>>)]
           /\ lastOp' = [op |-> "addMemory", agent |-> a, entry |-> <<entry>>]
    /\ UNCHANGED <<agentVars, dialogueVars, isGeneratingDialogue, calls>>

TickSlots == 1..MaxTicks

\* The inputs of the simulation that are tried: the agents that are not
\* conversing are all left in the same state by a movement step, thoughts
\* come due for the first two agents, and a thought that is generated is
\* grounded in a source passage
MoveChoices == {[a \in SimAgents |-> moved] : moved \in MoveStates}
DueChoices == SUBSET {SimAgentIds[1], SimAgentIds[2]}
ThoughtChoices ==
    {memory \in UNION {ThoughtResults([createInitialAgents[a]
                                        EXCEPT !.state = moved]) :
                            a \in SimAgents, moved \in MoveStates} :
        memory = <<>> \/ memory[1].importance = 7}
CandidateChoices ==
    {<<>>} \cup {<<SimAgentIds[i], SimAgentIds[j]>> :
                    i \in DOMAIN SimAgentIds, j \in DOMAIN SimAgentIds}

NextSimulation ==
    \/ HandleConversationsDropped
    \/ \E throttled \in BOOLEAN :
       \E candidates \in CandidateChoices :
       \E random \in 1..2 :
            HandleConversations(throttled, candidates, random, MaxConversations)
    \/ \E slot \in TickSlots : \E ok \in BOOLEAN :
            GenerateDialogueTurnCompletes(slot, ok)
    \/ \E slot \in TickSlots : \E random \in 1..2 :
            HandleConversationsResumes(slot, random)
    \/ TogglePause
    \/ \E deltaTime \in 0..1 : \E next \in MoveChoices :
            UpdateMovement(deltaTime, next, MaxSimTime)
    \/ GenerateAgentThoughtsPaused
    \/ \E due \in DueChoices : GenerateAgentThoughts(due, MaxSimMemories)
    \/ \E a \in SimAgents :
       \E memory \in ThoughtChoices :
            GenerateThoughtCompletes(a, memory)

SpecSimulation == Init /\ [][NextSimulation]_vars

----------------------------------------------------------------------------
\* One conversation after another: the simulation without thoughts,
\* followed past the cooldown of a first conversation

\* latest simulation time of this specification, in units of 5000 ms
MaxEncounterTime == 5
\* largest number of conversations it starts
MaxEncounters == 2

\* a movement step leaves the agents that are not conversing walking
EncounterMoves == {[a \in SimAgents |-> "walking"]}

NextEncounters ==
    \/ HandleConversationsDropped
    \/ \E throttled \in BOOLEAN :
       \E candidates \in CandidateChoices :
       \E random \in 1..2 :
            HandleConversations(throttled, candidates, random, MaxEncounters)
    \/ \E slot \in TickSlots : \E ok \in BOOLEAN :
            GenerateDialogueTurnCompletes(slot, ok)
    \/ \E slot \in TickSlots : \E random \in 1..2 :
            HandleConversationsResumes(slot, random)
    \/ TogglePause
    \/ \E deltaTime \in 0..1 : \E next \in EncounterMoves :
            UpdateMovement(deltaTime, next, MaxEncounterTime)

SpecEncounters == Init /\ [][NextEncounters]_vars

----------------------------------------------------------------------------
\* The display memory stream of one agent at its cap

\* entries pushed on a stream of the model beyond those it starts with
MaxAdditions == 2

\* the agent whose stream is followed
MemoryAgent == SimAgentIds[2]

\* A stream of MAX_MEMORIES - 1 thoughts pushed at time 0, their
\* importances repeating a pattern
FilledStream(pattern) ==
    [ i \in 1..(MAX_MEMORIES - 1) |->
        [ id |-> i, type |-> "thought",
          importance |-> pattern[((i - 1) % Len(pattern)) + 1],
          timestamp |-> 0 ] ]

FilledPatterns == {<<5>>, <<7, 5, 6>>}

\* The simulation after MAX_MEMORIES - 1 thoughts of one agent
InitMemories ==
    /\ ms = EmptyStore
    /\ scratch = InitialScratch
    /\ run = NoRun
    /\ wallClock = 0
    /\ lastOp = [op |-> "new"]
    /\ observed = <<>>
    /\ activeDialogues = <<>>
    /\ dialogueCall = NoDialogueCalls
    /\ others = [name \in OtherNames |-> IdleConversation]
    /\ \E pattern \in FilledPatterns :
          state = [createInitialState EXCEPT
                      !.agents[MemoryAgent].memoryStream = FilledStream(pattern)]
    /\ isGeneratingDialogue = FALSE
    /\ calls = NoCalls

AddedImportances == {3, 5, 8}
MemoryThoughtChoices ==
    {memory \in ThoughtResults(createInitialAgents[MemoryAgent]) :
        memory = <<>> \/ memory[1].importance \in {5, 7}}

NextMemories ==
    \/ ClockTick
    \/ \E importance \in AddedImportances :
            AddMemory(MemoryAgent, "dialogue", importance,
                      MAX_MEMORIES - 1 + MaxAdditions)
    \/ GenerateAgentThoughts({MemoryAgent}, MAX_MEMORIES - 1 + MaxAdditions)
    \/ \E memory \in MemoryThoughtChoices :
            GenerateThoughtCompletes(MemoryAgent, memory)

SpecMemories == InitMemories /\ [][NextMemories]_vars

\* The scheduling of the page: setInterval calls handleConversations every
\* 500 ms for as long as the page lives, a request that was sent completes
\* (with a text or with a failure), a call that waits for it resumes, and
\* the user who paused the simulation resumes it. Whether a request
\* succeeds is not the page's to decide.
HandleConversationsTick ==
    \E throttled \in BOOLEAN :
    \E candidates \in CandidateChoices :
    \E random \in 1..2 :
        HandleConversations(throttled, candidates, random, MaxConversations)

RequestCompletes ==
    \E slot \in TickSlots : \E ok \in BOOLEAN :
        GenerateDialogueTurnCompletes(slot, ok)

RequestSucceeds ==
    \E slot \in TickSlots : GenerateDialogueTurnCompletes(slot, TRUE)

CallResumes ==
    \E slot \in TickSlots : \E random \in 1..2 :
        HandleConversationsResumes(slot, random)

PageScheduling ==
    /\ SF_vars(HandleConversationsTick)
    /\ WF_vars(RequestCompletes)
    /\ WF_vars(CallResumes)
    /\ WF_vars(state.isPaused /\ TogglePause)

SpecSimulationFair == SpecSimulation /\ PageScheduling

\* The same page with a generation endpoint that does not fail for ever
SpecSimulationRecovering == SpecSimulationFair /\ SF_vars(RequestSucceeds)

----------------------------------------------------------------------------
\* The memory store's contract (checked under SpecStore)

\* C1: every add operation returns a node whose id is new (in none of the
\* nodes stored before) and numbered above every earlier id, leaves the
\* earlier nodes under their ids, and getNode of the returned id, called
\* right after the insertion, is the returned node.
C1_UniqueIncreasingIds ==
    [][lastOp'.op \in AddOps =>
        LET node == lastOp'.node
        IN  /\ node.id \notin DOMAIN ms.idToNode
            /\ \A id \in DOMAIN ms.idToNode :
                  /\ NodeNumber(id) < NodeNumber(node.id)
                  /\ getNode(ms', id) = ms.idToNode[id]
            /\ DOMAIN ms'.idToNode = (DOMAIN ms.idToNode) \cup {node.id}
            /\ getNode(ms', node.id) = node
            /\ \A id \in DOMAIN ms'.idToNode : ms'.idToNode[id].id = id]_vars

C1_Witness ==
    /\ lastOp.op = "addSource"
    /\ Cardinality(DOMAIN ms.idToNode) = 3
    /\ {ms.idToNode[id].type : id \in DOMAIN ms.idToNode} = {"event", "chat", "source"}
    /\ getNode(ms, lastOp.node.id) = lastOp.node

\* C2: the node an addThought call returns has depth 1 + the largest depth
\* among the nodes its evidence list names at the call (1 when it names
\* none), and every event, chat and source node has depth 0.
C2_ThoughtDepth ==
    [][/\ lastOp'.op = "addThought" =>
            LET node == lastOp'.node
                named == Range(node.evidence) \cap DOMAIN ms.idToNode
                depths == {ms.idToNode[e].depth : e \in named}
            IN  node.depth = 1 + (IF depths = {} THEN 0 ELSE Max(depths))
       /\ \A id \in DOMAIN ms'.idToNode :
            ms'.idToNode[id].type # "thought" => ms'.idToNode[id].depth = 0]_vars

C2_Witness ==
    /\ lastOp.op = "addThought"
    /\ lastOp.node.depth = 3
    /\ Len(lastOp.node.evidence) = 2
    /\ ms.idToNode[lastOp.node.evidence[1]].depth = 0
    /\ ms.idToNode[lastOp.node.evidence[2]].depth = 2

\* C3: every evidence id of every node names a node that was added strictly
\* earlier, so no node cites itself, directly or transitively.
C3_EvidenceNamesEarlierNodes ==
    \A id \in DOMAIN ms.idToNode :
        \A e \in Range(ms.idToNode[id].evidence) :
            /\ e \in DOMAIN ms.idToNode
            /\ NodeNumber(e) < NodeNumber(id)


----------------------------------------------------------------------------
\* Retrieval and persistence (checked under SpecRetrieval)

\* C6: for every focal point retrieve returns min(maxResults, size of the
\* candidate pool) distinct scored nodes of the pool, in non-increasing
\* order of totalScore, no node of the pool left out scores higher than a
\* returned one, and every returned node's lastAccessed is the retrieval time.
C6_TopKByTotalScore ==
    [][lastOp'.op = "retrieveFocal" =>
        LET r == lastOp'
            top == r.topNodes
            pool == Range(CandidatePool(ms))
            all == ScoredNodes(ms, EmbeddingOf(r.focalPoint),
                               [DEFAULT_CONFIG EXCEPT !.maxResults = r.maxResults])
            Total(id) == all[CHOOSE k \in DOMAIN all : all[k].node = id].totalScore
            returned == {top[i].node : i \in DOMAIN top}
        IN  /\ Len(top) = Min({r.maxResults, Cardinality(pool)})
            /\ Cardinality(returned) = Len(top)
            /\ returned \subseteq pool
            /\ \A i \in DOMAIN top : top[i].totalScore = Total(top[i].node)
            /\ \A i \in DOMAIN top : \A j \in DOMAIN top :
                  i < j => top[i].totalScore >= top[j].totalScore
            /\ \A id \in pool \ returned : \A i \in DOMAIN top :
                  Total(id) <= top[i].totalScore
            /\ \A id \in returned : ms'.idToNode[id].lastAccessed = r.now]_vars

C6_Witness ==
    /\ lastOp.op = "retrieveFocal"
    /\ Cardinality(lastOp.pool) = 3
    /\ lastOp.maxResults = 2
    /\ Len(lastOp.topNodes) = 2
    /\ lastOp.topNodes[1].totalScore > lastOp.topNodes[2].totalScore
    /\ lastOp.now > 0
    /\ \A i \in 1..2 : ms.idToNode[lastOp.topNodes[i].node].lastAccessed = lastOp.now
    /\ \E id \in lastOp.pool : ms.idToNode[id].lastAccessed < lastOp.now

\* C7: the store built from a store's toJSON holds the same node ids, the
\* same fields in every node and the same embedding cache.
C7_RoundTrip ==
    (lastOp.op = "load" /\ lastOp.kind = "saved") =>
        /\ DOMAIN ms.idToNode = DOMAIN lastOp.before.idToNode
        /\ \A id \in DOMAIN ms.idToNode : ms.idToNode[id] = lastOp.before.idToNode[id]
        /\ ms.embeddings = lastOp.before.embeddings

\* C8: constructing a store from malformed saved data fails with an error,
\* and never yields a store that holds part of the saved nodes or holds
\* them under other ids.
C8_MalformedLoadFails ==
    (lastOp.op = "load" /\ lastOp.kind # "saved") =>
        /\ lastOp.threw
        /\ DOMAIN ms.idToNode = DOMAIN lastOp.saved.nodes

\* C9: the nodes retrieve leaves out of its candidate pool are exactly the
\* events, thoughts and sources whose description contains "is idle".
C9_PoolExcludesExactlyIdle ==
    lastOp.op = "retrieveFocal" =>
        lastOp.pool = {id \in Range(getAllMemoriesWithSources(ms)) :
                          ~Includes(ms.idToNode[id].description, IdleMarker)}

\* C4: under observe calls that start from a reset counter, shouldReflect
\* is false while the poignancies observed since the reset sum to less than
\* importanceTriggerMax and true once they reach or exceed it, and
\* importanceEleN counts the observations since the reset.
C4_TriggerAtCumulativePoignancy ==
    /\ shouldReflect(scratch) <=> (Sum(observed) >= scratch.importanceTriggerMax)
    /\ scratch.importanceEleN = Len(observed)

\* the sum reaches importanceTriggerMax exactly, at the second or a later
\* observation
C4_Witness ==
    /\ lastOp.op = "observe" /\ ~lastOp.threw
    /\ Len(observed) >= 2
    /\ Sum(observed) = scratch.importanceTriggerMax
    /\ shouldReflect(scratch)

\* C5: when maybeReflect has run a triggered reflection to completion the
\* counter is back at importanceTriggerMax, the element count at 0 and
\* shouldReflect is false, whatever the reflection produced.
C5_ResetAfterReflection ==
    (lastOp.op = "maybeReflect" /\ ~lastOp.threw /\ lastOp.triggered) =>
        /\ scratch.importanceTriggerCurr = scratch.importanceTriggerMax
        /\ scratch.importanceEleN = 0
        /\ ~shouldReflect(scratch)

\* a triggered reflection over a non-empty store completes without a thought
C5_Witness ==
    /\ lastOp.op = "maybeReflect" /\ ~lastOp.threw /\ lastOp.triggered
    /\ lastOp.result = <<>>
    /\ lastOp.before # {}

\* The thoughts of the reflection run in progress or just completed, and
\* the ids of the store when that run started
ReflectionThoughts ==
    IF run.pc \in {"insights", "persist"} THEN run.newThoughts
    ELSE IF lastOp.op = "maybeReflect" /\ ~lastOp.threw /\ lastOp.triggered
         THEN lastOp.result
         ELSE <<>>
ReflectionBefore ==
    IF run.pc \in {"insights", "persist"} THEN run.before
    ELSE IF lastOp.op = "maybeReflect" /\ ~lastOp.threw /\ lastOp.triggered
         THEN lastOp.before
         ELSE {}

\* C10: the evidence of every thought a reflection run creates names only
\* nodes that were in the store before the run started and were retrieved
\* for the thought's focal point, and never a thought of the same run.
C10_EvidenceFromRetrievedEarlierNodes ==
    \A i \in DOMAIN ReflectionThoughts :
        LET thought == ReflectionThoughts[i]
            stored == ms.idToNode[thought.node.id]
        IN  /\ thought.node.id \notin ReflectionBefore
            /\ stored.type = "thought"
            /\ stored.evidence = thought.node.evidence
            /\ Range(stored.evidence) \subseteq ReflectionBefore
            /\ Range(stored.evidence) \subseteq thought.retrieved
            /\ \A j \in DOMAIN ReflectionThoughts :
                  ReflectionThoughts[j].node.id \notin Range(stored.evidence)

\* a completed run whose first thought cites a node, over a store from
\* which a node was not retrieved for that thought's focal point
C10_Witness ==
    /\ lastOp.op = "maybeReflect" /\ ~lastOp.threw /\ lastOp.triggered
    /\ Len(lastOp.result) >= 1
    /\ lastOp.result[1].node.evidence # <<>>
    /\ lastOp.before \ lastOp.result[1].retrieved # {}

\* C11: every node the controller and the reflection engine write has a
\* poignancy in 1..10: 1 without a call for an idle description, 5 for an
\* unparseable rating, and the rating clamped into 1..10 otherwise.
C11_PoignancyInRange ==
    /\ \A id \in DOMAIN ms.idToNode : ms.idToNode[id].poignancy \in 1..10
    /\ ("rating" \in DOMAIN lastOp) =>
          LET p == lastOp.node.poignancy
              r == lastOp.rating
          IN  IF Includes(lastOp.description, IdleMarker)
              THEN p = 1 /\ lastOp.ratingCalls = 0
              ELSE /\ lastOp.ratingCalls = 1
                   /\ (r = <<>> \/ r[1] = "profound") => p = 5
                   /\ (r # <<>> /\ r[1] = "12") => p = 10
                   /\ (r # <<>> /\ r[1] \in {"0", "-3"}) => p = 1
                   /\ (r # <<>> /\ r[1] = "7") => p = 7

\* a rating above the scale has just been clamped, next to a node of an
\* unparseable rating and an idle node
C11_Witness ==
    /\ lastOp.op = "citeSource" /\ ~lastOp.threw
    /\ lastOp.rating = <<"12">> /\ lastOp.node.poignancy = 10
    /\ \E id \in DOMAIN ms.idToNode :
          /\ ms.idToNode[id].poignancy = 5
          /\ ~Includes(ms.idToNode[id].description, IdleMarker)
    /\ \E id \in DOMAIN ms.idToNode :
          Includes(ms.idToNode[id].description, IdleMarker)

\* C12: when importanceTriggerCurr > 0, maybeReflect returns an empty list,
\* starts no gateway call and leaves the store and the scratch unchanged.
C12_NotTriggeredIsNoOp ==
    [][ (run.pc = "idle" /\ scratch.importanceTriggerCurr > 0
            /\ lastOp'.op \in {"maybeReflect", "call"}) =>
           /\ lastOp'.op = "maybeReflect" /\ ~lastOp'.threw
           /\ lastOp'.result = <<>>
           /\ run' = NoRun
           /\ ms' = ms
           /\ scratch' = scratch ]_vars

\* maybeReflect has returned untriggered with part of the budget used
C12_Witness ==
    /\ lastOp.op = "maybeReflect" /\ ~lastOp.threw /\ ~lastOp.triggered
    /\ Len(observed) >= 1
    /\ scratch.importanceTriggerCurr < scratch.importanceTriggerMax
    /\ ms # EmptyStore

\* C13: citeSource adds exactly one node, of type source and without
\* expiration, and leaves the scratch (so the reflection counters) unchanged.
C13_CiteSourceLeavesCounters ==
    [][ (lastOp'.op = "citeSource" /\ ~lastOp'.threw) =>
           LET id == lastOp'.node.id
           IN  /\ id \notin DOMAIN ms.idToNode
               /\ DOMAIN ms'.idToNode = DOMAIN ms.idToNode \cup {id}
               /\ \A old \in DOMAIN ms.idToNode : ms'.idToNode[old] = ms.idToNode[old]
               /\ ms'.idToNode[id].type = "source"
               /\ ms'.idToNode[id].expiration = Null
               /\ ms'.seqSource = <<id>> \o ms.seqSource
               /\ scratch' = scratch
               /\ shouldReflect(scratch') = shouldReflect(scratch) ]_vars

\* a citation made when an observation has used part of the budget
C13_Witness ==
    /\ lastOp.op = "citeSource" /\ ~lastOp.threw
    /\ Len(observed) >= 1
    /\ ~shouldReflect(scratch)
    /\ scratch.importanceTriggerCurr < scratch.importanceTriggerMax

\* C14: a successful endConversation on a conversing agent adds a chat node
\* and then two thoughts whose evidence is exactly that chat node (depth 1),
\* and clears chattingWith, chattingEndTime and chat only at the end; on an
\* agent that is not conversing it returns null and changes nothing.
C14_EndConversation ==
    [][ /\ (run.pc = "idle" /\ scratch.chattingWith = NullText
               /\ lastOp'.op \in {"endConversation", "call"}) =>
              /\ lastOp'.op = "endConversation" /\ ~lastOp'.conversing
              /\ ms' = ms /\ scratch' = scratch /\ run' = run
        /\ (run.pc \in {"chat", "planning", "memo"}) =>
              scratch.chattingWith # NullText
        /\ (lastOp'.op = "endConversation" /\ ~lastOp'.threw /\ lastOp'.conversing) =>
              LET chat == lastOp'.chat
                  planningThought == lastOp'.result.planningThought
                  memo == lastOp'.result.memo
              IN  /\ chat.type = "chat"
                  /\ planningThought.type = "thought" /\ memo.type = "thought"
                  /\ planningThought.nodeCount = chat.nodeCount + 1
                  /\ memo.nodeCount = chat.nodeCount + 2
                  /\ Cardinality(DOMAIN ms'.idToNode) = memo.nodeCount
                  /\ \A n \in {chat, planningThought, memo} : ms'.idToNode[n.id] = n
                  /\ planningThought.evidence = <<chat.id>>
                  /\ memo.evidence = <<chat.id>>
                  /\ planningThought.depth = 1 /\ memo.depth = 1
                  /\ scratch'.chattingWith = NullText
                  /\ scratch'.chattingEndTime = Null
                  /\ scratch'.chat = <<>> ]_vars

\* endConversation has succeeded with an earlier chat node for the same
\* participant in the store
C14_Witness ==
    /\ lastOp.op = "endConversation" /\ ~lastOp.threw /\ lastOp.conversing
    /\ Len(ms.seqChat) >= 2
    /\ ms.idToNode[ms.seqChat[1]].object = ms.idToNode[ms.seqChat[2]].object

\* C15: when a gateway call of endConversation fails and the caller calls
\* endConversation again, the calls together have written what one
\* successful call writes: one chat node and two thoughts.
C15_EndConversationRetryable ==
    (lastOp.op = "endConversation" /\ ~lastOp.threw /\ lastOp.conversing) =>
        /\ Cardinality({id \in lastOp.wrote : ms.idToNode[id].type = "chat"}) = 1
        /\ Cardinality(lastOp.wrote) = 3

\* C16: a failing gateway call inside observe, maybeReflect or
\* endConversation does not make the operation fail to its caller.
C16_GatewayFailuresCaught ==
    (lastOp.op \in {"observe", "maybeReflect", "endConversation"}) => ~lastOp.threw

----------------------------------------------------------------------------
\* The Dialogue Manager's contract

\* C17: when the move-classification response, trimmed and lower-cased, is
\* exactly one of the eight labels, the rhetoricMove of the turn that
\* generateTurn appends is that label; when the response contains none of
\* the labels it is 'clarification'. (Checked under SpecMoves.)
C17_RhetoricMoveIsTheLabel ==
    (lastOp.op = "generateTurn" /\ ~lastOp.threw) =>
        LET move == toLowerCase(trim(lastOp.moveResponse))
            NoLabel == \A i \in DOMAIN validMoves :
                            ~Includes(move, validMoves[i])
        IN  /\ move \in Range(validMoves) => lastOp.turn.rhetoricMove = move
            /\ NoLabel => lastOp.turn.rhetoricMove = <<"clarification">>

\* The method and id of the manager call that a step enters
EntryOf(op) == IF "entry" \in DOMAIN op THEN op.entry ELSE Resumed

\* C18: a step that enters endDialogue on an active dialogue with no turn
\* starts no language-model call, leaves keyInsights, unresolvedQuestions and
\* sourcesDiscussed of the dialogue empty, stamps endTime with the current
\* date and removes the dialogue from activeDialogues; a step that enters
\* generateTurn or endDialogue on the id of a dialogue that was removed
\* raises the not-found error. (Checked under SpecDialogue.)
C18_EndDialogueWithoutTurns ==
    [][ LET entry == EntryOf(lastOp')
            id == entry.dialogue
        IN  /\ ( /\ entry.method = "endDialogue"
                 /\ id \in DOMAIN activeDialogues
                 /\ activeDialogues[id].turns = <<>> ) =>
                    /\ lastOp'.op = "endDialogue" /\ ~lastOp'.threw
                    /\ lastOp'.llmCalls = 0
                    /\ dialogueCall'.calls = dialogueCall.calls
                    /\ id \notin DOMAIN activeDialogues'
                    /\ dialogueCall'.evicted[id] =
                          [activeDialogues[id] EXCEPT !.endTime = wallClock]
                    /\ dialogueCall'.evicted[id].endTime # Null
                    /\ dialogueCall'.evicted[id].keyInsights = <<>>
                    /\ dialogueCall'.evicted[id].unresolvedQuestions = <<>>
                    /\ dialogueCall'.evicted[id].sourcesDiscussed = <<>>
            /\ ( /\ entry.method \in {"generateTurn", "endDialogue"}
                 /\ id \in DOMAIN dialogueCall.evicted ) =>
                    /\ lastOp'.op = entry.method
                    /\ lastOp'.threw /\ lastOp'.error = "not found"
                    /\ UNCHANGED <<activeDialogues, dialogueCall>> ]_vars

\* A dialogue was ended without a turn after the clock had advanced, while
\* another dialogue was active, and a later endDialogue on its id has raised
\* the not-found error
C18_Witness ==
    /\ lastOp.op = "endDialogue" /\ lastOp.threw
    /\ lastOp.error = "not found"
    /\ lastOp.dialogue \in DOMAIN dialogueCall.evicted
    /\ dialogueCall.evicted[lastOp.dialogue].turns = <<>>
    /\ dialogueCall.evicted[lastOp.dialogue].endTime > 0
    /\ activeDialogues # <<>>


----------------------------------------------------------------------------
\* The simulation loop's contract (checked under SpecSimulation)

\* Every conversation object of the simulation: the active one and the
\* archived ones
Conversations ==
    Range(state.activeConversation) \cup Range(state.conversationHistory)

\* A step in which handleConversations reaches "Continue active
\* conversation": a call that passes the first test, or the resumption
\* after the first turn of a new conversation
ReachesContinue ==
    \/ lastOp'.op = "handleConversations" /\ lastOp'.entered
    \/ lastOp'.op = "resume" /\ lastOp'.pc = "first"

\* C19: shouldEndConversation(conv) is true exactly when conv has at least
\* MAX_CONVERSATION_TURNS turns; under every interleaving of ticks and
\* completions no conversation has more than MAX_CONVERSATION_TURNS turns;
\* and a handleConversations step that reaches an active conversation at
\* the limit ends it: its participants are idle without a partner, it is
\* appended to conversationHistory and activeConversation is null.
C19_TurnLimit ==
    /\ [](\A conv \in Conversations :
            /\ shouldEndConversation(conv)
                 <=> Len(conv.turns) >= MAX_CONVERSATION_TURNS
            /\ Len(conv.turns) <= MAX_CONVERSATION_TURNS)
    /\ [][ ( /\ ReachesContinue
             /\ state.activeConversation # <<>>
             /\ Len(state.activeConversation[1].turns)
                    >= MAX_CONVERSATION_TURNS ) =>
                LET conv == state.activeConversation[1]
                IN  /\ state'.activeConversation = <<>>
                    /\ state'.conversationHistory =
                            Append(state.conversationHistory, conv)
                    /\ \A a \in Range(conv.participants) :
                        /\ state'.agents[a].state = "idle"
                        /\ state'.agents[a].conversationPartner = NoPartner ]_vars

\* A conversation of MAX_CONVERSATION_TURNS turns has just been ended by a
\* tick and archived
C19_Witness ==
    /\ lastOp.op = "handleConversations" /\ lastOp.entered
    /\ state.activeConversation = <<>>
    /\ state.conversationHistory # <<>>
    /\ Len(state.conversationHistory[1].turns) = MAX_CONVERSATION_TURNS
    /\ \A a \in Range(state.conversationHistory[1].participants) :
            state.agents[a].state = "idle"

\* The handleConversations calls whose dialogue-turn request is outstanding
TurnsInFlight ==
    {slot \in DOMAIN calls.ticks : calls.ticks[slot].turn = "fetching"}

\* C20: at most one dialogue-turn generation is outstanding and at most one
\* thought generation is outstanding per agent; a handleConversations tick
\* that fires while a turn is being generated changes nothing (it starts no
\* request and leaves no call waiting), and a generateAgentThoughts tick
\* leaves an agent whose thought is being generated, and the number of its
\* outstanding requests, as they were.
C20_OneGenerationInFlight ==
    /\ [](/\ Cardinality(TurnsInFlight) <= 1
          /\ \A a \in SimAgents : calls.thoughts[a] <= 1)
    /\ [][ /\ (lastOp'.op = "handleConversations" /\ TurnsInFlight # {}) =>
                UNCHANGED <<state, isGeneratingDialogue, calls>>
           /\ lastOp'.op = "generateAgentThoughts" =>
                \A a \in SimAgents : calls.thoughts[a] > 0 =>
                    /\ calls'.thoughts[a] = calls.thoughts[a]
                    /\ state'.agents[a] = state.agents[a] ]_vars

\* A tick has fired and returned while a dialogue turn was being generated,
\* with a thought being generated for each of two agents
C20_Witness ==
    /\ lastOp.op = "handleConversations" /\ ~lastOp.entered
    /\ TurnsInFlight # {}
    /\ ~state.isPaused
    /\ Cardinality({a \in SimAgents : calls.thoughts[a] = 1}) = 2


\* (used to delimit C7) the round trip keeps every field but lastAccessed
RoundTripKeepsAllButLastAccessed ==
    (lastOp.op = "load" /\ lastOp.kind = "saved") =>
        /\ DOMAIN ms.idToNode = DOMAIN lastOp.before.idToNode
        /\ \A id \in DOMAIN ms.idToNode :
              [ms.idToNode[id] EXCEPT !.lastAccessed = 0]
                  = [lastOp.before.idToNode[id] EXCEPT !.lastAccessed = 0]
        /\ ms.embeddings = lastOp.before.embeddings
        /\ ms.seqEvent = lastOp.before.seqEvent
        /\ ms.kwToEvent = lastOp.before.kwToEvent
        /\ ms.kwStrengthEvent = lastOp.before.kwStrengthEvent

----------------------------------------------------------------------------
\* The simulation under the page's scheduling (checked under
\* SpecSimulationFair)

\* C21: every conversation that handleConversations started eventually
\* ends, and its participants leave the 'conversing' state, whether or not
\* the dialogue-turn requests fail
C21_ConversationsEnd ==
    \A a \in SimAgents :
        (state.agents[a].state = "conversing")
            ~> (/\ state.agents[a].state \in MoveStates
                /\ state.activeConversation = <<>>)

\* The turns of every conversation, active or archived
TurnsOf(st) ==
    [ active |-> [i \in DOMAIN st.activeConversation |->
                        st.activeConversation[i].turns],
      history |-> [i \in DOMAIN st.conversationHistory |->
                        st.conversationHistory[i].turns] ]

\* A request that fails is no result. A failed dialogue-turn request adds no
\* turn, leaves no conversation generating and leaves the agents, the time
\* and the pause as they were; a failed thought request only clears the
\* agent's isGeneratingThought; the call that waited for a failed request
\* for a next turn clears isGeneratingDialogue and returns.
FailureIsNoResult ==
    [][ /\ (lastOp'.op = "generateDialogueTurn" /\ ~lastOp'.ok) =>
            /\ TurnsOf(state') = TurnsOf(state)
            /\ \A conv \in Range(state'.activeConversation)
                            \cup Range(state'.conversationHistory) :
                    ~conv.isGenerating
            /\ state'.agents = state.agents
            /\ state'.time = state.time
            /\ state'.isPaused = state.isPaused
        /\ (lastOp'.op = "generateThought" /\ ~lastOp'.memory) =>
            /\ state' = [state EXCEPT
                    !.agents[lastOp'.agent].isGeneratingThought = FALSE]
            /\ isGeneratingDialogue' = isGeneratingDialogue
        /\ ( /\ lastOp'.op = "resume"
             /\ lastOp'.result = "null"
             /\ lastOp'.pc = "next" ) =>
            /\ ~isGeneratingDialogue'
            /\ state' = state
            /\ TurnsInFlight' = {} ]_vars

\* The call that waited for a failed request sends no other request
NoRetryWithinTick ==
    [][ (lastOp'.op = "resume" /\ lastOp'.result = "null") =>
            /\ ~isGeneratingDialogue'
            /\ state' = state
            /\ TurnsInFlight' = {} ]_vars

\* C22: a dialogue-turn or thought generation whose request fails is no
\* result: no turn or memory is added, conv.isGenerating,
\* isGeneratingDialogue and isGeneratingThought are cleared again, nothing
\* is requested again within the same tick, and the rest of the simulation
\* state is unchanged
C22_FailedRequestIsNoResult ==
    FailureIsNoResult /\ NoRetryWithinTick

----------------------------------------------------------------------------
\* Agents side by side (checked under SpecConversation)

\* The operations of the modelled agent's controller, and the steps in
\* which maybeReflect and endConversation go on after a gateway call
ControllerOperations ==
    {"tick", "observe", "citeSource", "initializeCoreMemories",
     "maybeReflect", "focalPoints", "retrieveFocal", "insights",
     "reflectThought", "continue", "startConversation", "addUtterance",
     "endConversation", "convChat", "convThought"}

\* C23: distinct agents created by createPhilosopherAgent own disjoint
\* state: no operation on one agent's controller changes another agent's
\* scratch state
C23_AgentsOwnDisjointState ==
    [][ lastOp'.op \in ControllerOperations => others' = others ]_vars

----------------------------------------------------------------------------
\* Reflection runs with several thoughts (checked under SpecReflection)

\* The last n elements of a sequence, in order
LastOf(s, n) ==
    IF Len(s) <= n THEN s ELSE SubSeq(s, Len(s) - n + 1, Len(s))

\* C24: after a maybeReflect call that creates n thought nodes,
\* recentInsights holds the descriptions of the min(3, n) most recently
\* created of them, the last ones the reflection run wrote
C24_RecentInsightsAreTheLatest ==
    (lastOp.op = "maybeReflect" /\ ~lastOp.threw /\ lastOp.triggered) =>
        LET latest == LastOf(lastOp.result, 3)
        IN  scratch.recentInsights =
                [i \in DOMAIN latest |-> latest[i].node.description]

----------------------------------------------------------------------------
\* The importance budget and the thoughts (checked under SpecController)

\* C25: every thought node that a reflection run or the reflection on a
\* conversation adds to the agent's store takes the node's poignancy off
\* importanceTriggerCurr and adds one to importanceEleN, as each observed
\* event does
C25_ThoughtsCountAgainstTheBudget ==
    [][ \A id \in DOMAIN ms'.idToNode \ DOMAIN ms.idToNode :
          ( /\ ms'.idToNode[id].type = "thought"
            /\ lastOp'.op \in {"reflectThought", "convThought",
                               "endConversation"} ) =>
              /\ scratch'.importanceTriggerCurr =
                    scratch.importanceTriggerCurr - ms'.idToNode[id].poignancy
              /\ scratch'.importanceEleN = scratch.importanceEleN + 1 ]_vars

----------------------------------------------------------------------------
\* The two clocks (checked under SpecAgent)

\* C26: when retrieve has touched the nodes it returns for a focal point,
\* each of them was accessed at least as recently as every node it did not
\* return, and no node's lastAccessed has moved backwards, whatever the
\* agent's simulation time and the time of the retrieval are
C26_RetrievalReinforcesRecency ==
    [][ lastOp'.op = "retrieveFocal" =>
          LET returned == {lastOp'.topNodes[i].node :
                                i \in DOMAIN lastOp'.topNodes}
          IN  /\ \A id \in DOMAIN ms.idToNode :
                    ms'.idToNode[id].lastAccessed >= ms.idToNode[id].lastAccessed
              /\ \A r \in returned :
                 \A n \in DOMAIN ms.idToNode \ returned :
                    ms'.idToNode[r].lastAccessed >= ms'.idToNode[n].lastAccessed
      ]_vars

----------------------------------------------------------------------------
\* What a reflection run retrieves (checked under SpecController)

\* C27: in a reflection run the nodes retrieve chooses among and returns for
\* a focal point are events and thoughts only, and a thought the run writes
\* cites no source node and no chat node as evidence
C27_ReflectionRetrievesEventsAndThoughts ==
    /\ lastOp.op = "retrieveFocal" =>
          \A id \in lastOp.pool \cup
                    {lastOp.topNodes[i].node : i \in DOMAIN lastOp.topNodes} :
              ms.idToNode[id].type \in {"event", "thought"}
    /\ lastOp.op = "reflectThought" =>
          \A id \in Range(lastOp.node.evidence) :
              id \in DOMAIN ms.idToNode =>
                  ms.idToNode[id].type \in {"event", "thought"}

----------------------------------------------------------------------------
\* The start of a dialogue (checked under SpecDialogue)

\* get isInConversation() of the controller with this name
isInConversation(name) ==
    IF name = AgentName THEN scratch.chattingWith # NullText
    ELSE others[name].chattingWith # NullText

\* The active dialogues this agent is a participant of
ActiveDialoguesOf(name) ==
    {id \in DOMAIN activeDialogues :
        name \in Range(activeDialogues[id].participants)}

\* C28: startDialogue checks that neither agent is conversing right before
\* it commits: called for an agent whose isInConversation is true it leaves
\* that agent's chattingWith, chattingEndTime and chat as they are and
\* registers no other active dialogue with it, so that an agent is a
\* participant of at most one active dialogue
C28_StartDialogueChecksConversing ==
    /\ [](\A name \in {AgentName} \cup OtherNames :
            Cardinality(ActiveDialoguesOf(name)) <= 1)
    /\ [][ ( /\ lastOp'.op = "startDialogue"
             /\ ~lastOp'.threw
             /\ \E name \in {AgentName} \cup OtherNames :
                    isInConversation(name) ) =>
                /\ \A name \in OtherNames :
                        isInConversation(name) => others'[name] = others[name]
                /\ isInConversation(AgentName) =>
                        /\ scratch'.chattingWith = scratch.chattingWith
                        /\ scratch'.chattingEndTime = scratch.chattingEndTime
                        /\ scratch'.chat = scratch.chat
                /\ \A name \in {AgentName} \cup OtherNames :
                        isInConversation(name) =>
                            ActiveDialoguesOf(name)' = ActiveDialoguesOf(name)
         ]_vars

----------------------------------------------------------------------------
\* The calls of generateTurn (checked under SpecDialogue)

\* The generateTurn calls that wait for an answer to this prompt
TurnCallsAt(call, pc) ==
    {slot \in DOMAIN call.calls :
        call.calls[slot].op = "generateTurn" /\ call.calls[slot].pc = pc}

\* The dialogue records, in activeDialogues or held by a call
DialogueRecords == <<activeDialogues, dialogueCall.evicted>>

\* The chat lists of the controllers
ChatLists == <<scratch.chat, [name \in OtherNames |-> others[name].chat]>>

\* C29: generateTurn asks for the utterance and then for its
\* classification, and writes neither the dialogue's turns nor the
\* speaker's chat before both have answered; when either call fails no turn
\* is appended and the dialogue records are as they were; given an id that
\* is not active it throws before it makes a call
C29_GenerateTurnOrder ==
    [][ /\ \* the first call is the utterance call, and nothing is written
           (lastOp'.op = "call" /\ EntryOf(lastOp').method = "generateTurn") =>
                /\ TurnCallsAt(dialogueCall', "utterance")
                        # TurnCallsAt(dialogueCall, "utterance")
                /\ TurnCallsAt(dialogueCall', "classify")
                        = TurnCallsAt(dialogueCall, "classify")
                /\ DialogueRecords' = DialogueRecords
                /\ ChatLists' = ChatLists
        /\ \* the classification is asked for by a call that has its utterance
           \A slot \in TurnCallsAt(dialogueCall', "classify")
                            \ TurnCallsAt(dialogueCall, "classify") :
                /\ slot \in TurnCallsAt(dialogueCall, "utterance")
                /\ DialogueRecords' = DialogueRecords
                /\ ChatLists' = ChatLists
        /\ \* a turn is written by a call that has both answers
           (lastOp'.op = "generateTurn" /\ ~lastOp'.threw) =>
                \E slot \in TurnCallsAt(dialogueCall, "classify") :
                    /\ slot \notin DOMAIN dialogueCall'.calls
                    /\ lastOp'.turn.utterance
                            = trim(dialogueCall.calls[slot].utterance)
        /\ \* a failed call writes nothing
           (lastOp'.op = "generateTurn" /\ lastOp'.threw) =>
                /\ DialogueRecords' = DialogueRecords
                /\ ChatLists' = ChatLists
        /\ \* an unknown id: the error comes before any call
           ( /\ EntryOf(lastOp').method = "generateTurn"
             /\ EntryOf(lastOp').dialogue \notin DOMAIN activeDialogues ) =>
                /\ lastOp'.op = "generateTurn"
                /\ lastOp'.threw /\ lastOp'.error = "not found"
                /\ dialogueCall' = dialogueCall
                /\ DialogueRecords' = DialogueRecords
                /\ ChatLists' = ChatLists
      ]_vars

\* A generateTurn call has written its turn after both answers, and another
\* has failed at a gateway call since
C29_Witness ==
    /\ lastOp.op = "generateTurn" /\ lastOp.threw /\ lastOp.error = "gateway"
    /\ \E id \in DOMAIN activeDialogues :
            /\ Len(activeDialogues[id].turns) = 1
            /\ scratch.chat = << <<AgentName, activeDialogues[id].turns[1].utterance>> >>

----------------------------------------------------------------------------
\* The participants' records of a dialogue (checked under SpecMoves)

\* scratch.chat of the controller with this name
ChatOf(name) == IF name = AgentName THEN scratch.chat ELSE others[name].chat

\* C30: after every successful generateTurn the chat list of each of the two
\* participants is the dialogue's turn sequence as (speaker, utterance)
\* pairs, in order
C30_ParticipantsShareTheChat ==
    (lastOp.op = "generateTurn" /\ ~lastOp.threw) =>
        LET dialogue == DialogueObject(lastOp.dialogue)
            pairs == [i \in DOMAIN dialogue.turns |->
                        <<dialogue.turns[i].speakerName,
                          dialogue.turns[i].utterance>>]
        IN  \A name \in Range(dialogue.participants) : ChatOf(name) = pairs

----------------------------------------------------------------------------
\* The weights of a retrieval config, as <<recency, relevance, importance>>
WeightsOf(cfg) == <<cfg.recencyWeight, cfg.relevanceWeight, cfg.importanceWeight>>

\* Every scored node of a retrieval step has the total the default weights
\* 0.5 / 3 / 2 give its three component scores
ScoredWithDefaultWeights(step) ==
    /\ WeightsOf(step.cfg) = WeightsOf(DEFAULT_CONFIG)
    /\ \A i \in DOMAIN step.topNodes :
          step.topNodes[i].totalScore =
              5 * step.topNodes[i].recencyScore
              + 30 * step.topNodes[i].relevanceScore
              + 20 * step.topNodes[i].importanceScore

\* C31 (reflection runs only): a retrieval issued by a reflection run of a
\* newly created agent computes totalScore with the default weights
\* recency 0.5, relevance 3, importance 2.
ReflectionUsesDefaultWeights ==
    [][(lastOp'.op = "retrieveFocal" /\ lastOp'.topNodes # <<>>
           /\ run.caller = "maybeReflect")
          => ScoredWithDefaultWeights(lastOp')]_vars

\* C31: every retrieval issued for a newly created agent with default
\* configuration, through retrieveForTopic, retrieveForDialogue or a
\* reflection run, computes totalScore with the default weights recency 0.5,
\* relevance 3, importance 2 (relevance above importance above recency).
C31_DefaultWeights ==
    [][(lastOp'.op = "retrieveFocal" /\ lastOp'.topNodes # <<>>)
          => ScoredWithDefaultWeights(lastOp')]_vars

----------------------------------------------------------------------------
\* The keyword index of a node type
KeywordIndexOf(store, type) ==
    CASE type = "event" -> store.kwToEvent
      [] type = "thought" -> store.kwToThought
      [] type = "chat" -> store.kwToChat
      [] type = "source" -> store.kwToSource

\* C32 (the index only): the keyword index holds every node under each of
\* its keywords in lower case, and under nothing else.
KeywordIndexIsCaseInsensitive ==
    \A id \in DOMAIN ms.idToNode :
        LET node == ms.idToNode[id]
            index == KeywordIndexOf(ms, node.type)
        IN  /\ \A kw \in node.keywords :
                  /\ toLowerCase(kw) \in DOMAIN index
                  /\ id \in Range(index[toLowerCase(kw)])
            /\ \A key \in DOMAIN index :
                  id \in Range(index[key])
                      => \E kw \in node.keywords : key = toLowerCase(kw)

\* C32: every node held by a memory store has a keywords set of lower-cased
\* terms only, whatever case the keywords had when passed to the add
\* operation, so that a membership test on node.keywords with a lower-cased
\* term agrees with the case-insensitive keyword index.
C32_KeywordsAreLowerCased ==
    \A id \in DOMAIN ms.idToNode :
        LET node == ms.idToNode[id]
            index == KeywordIndexOf(ms, node.type)
        IN  /\ \A kw \in node.keywords : kw = toLowerCase(kw)
            /\ \A key \in DOMAIN index :
                  (key \in node.keywords) <=> (id \in Range(index[key]))

----------------------------------------------------------------------------
\* The display stream of an agent holds at most MAX_MEMORIES entries, in
\* ascending timestamp order
DisplayStreamCapped ==
    \A a \in SimAgents :
        LET stream == state.agents[a].memoryStream
        IN  /\ Len(stream) <= MAX_MEMORIES
            /\ \A i \in DOMAIN stream : \A j \in DOMAIN stream :
                  i < j => stream[i].timestamp <= stream[j].timestamp

\* An addition to a full stream removes one entry of the stream and the new
\* entry taken together: one of lowest importance and, among those, of the
\* earliest timestamp
EvictsByImportanceThenAge ==
    \A a \in SimAgents :
        LET before == state.agents[a].memoryStream
            all == Range(before) \cup Range(lastOp'.entry)
        IN  (/\ lastOp'.op \in {"addMemory", "generateThought"}
             /\ lastOp'.agent = a
             /\ lastOp'.entry # <<>>
             /\ Len(before) = MAX_MEMORIES)
            => \E removed \in all :
                  /\ Range(state'.agents[a].memoryStream) = all \ {removed}
                  /\ \A e \in all :
                        \/ e.importance > removed.importance
                        \/ /\ e.importance = removed.importance
                           /\ e.timestamp >= removed.timestamp

\* C33: after any sequence of addMemory calls and completed thought
\* generations an agent's display memoryStream holds at most 50 entries in
\* ascending timestamp order; whenever an addition would exceed 50, the
\* entry removed is the one with the lowest importance, the oldest among
\* entries of equal importance.
C33_DisplayRing == []DisplayStreamCapped /\ [][EvictsByImportanceThenAge]_vars

\* A full stream has taken an addition and kept it, evicting an older entry
C33_Witness ==
    /\ lastOp.op \in {"addMemory", "generateThought"}
    /\ lastOp.entry # <<>>
    /\ Len(state.agents[MemoryAgent].memoryStream) = MAX_MEMORIES
    /\ lastOp.entry[1] \in Range(state.agents[MemoryAgent].memoryStream)
    /\ lastOp.entry[1].id > MAX_MEMORIES

----------------------------------------------------------------------------
\* The candidates of a store all have the same poignancy
SamePoignancy(store) ==
    \A i \in DOMAIN CandidatePool(store) : \A j \in DOMAIN CandidatePool(store) :
        store.idToNode[CandidatePool(store)[i]].poignancy
            = store.idToNode[CandidatePool(store)[j]].poignancy

\* C34: in retrieve, when every candidate node has the same poignancy
\* (including a pool of a single node), every candidate's importanceScore
\* is exactly 0.5, and every component score is a number of the range 0..1
\* (no division by zero occurs). In Scale units 0.5 is Scale \div 2.
C34_FlatImportanceIsHalf ==
    [][(/\ lastOp'.op = "retrieveFocal"
        /\ CandidatePool(ms) # <<>>
        /\ SamePoignancy(ms))
       => LET scored == ScoredNodes(ms, EmbeddingOf(lastOp'.focalPoint), run.cfg)
          IN  /\ Len(scored) = Len(CandidatePool(ms))
              /\ \A i \in DOMAIN scored :
                    /\ scored[i].importanceScore = Scale \div 2
                    /\ scored[i].recencyScore \in 0..Scale
                    /\ scored[i].relevanceScore \in 0..Scale]_vars

\* A retrieval has scored a pool of two or more nodes of one poignancy
C34_Witness ==
    /\ lastOp.op = "retrieveFocal"
    /\ Cardinality(lastOp.pool) >= 2
    /\ SamePoignancy(ms)
    /\ lastOp.topNodes # <<>>
    /\ \A i \in DOMAIN lastOp.topNodes :
          lastOp.topNodes[i].importanceScore = Scale \div 2

----------------------------------------------------------------------------
\* What C35 says of one call of normalizeScores
NormalizedWithinRange(call) ==
    /\ DOMAIN call.result = DOMAIN call.scores
    /\ \A k \in DOMAIN call.result :
          /\ call.targetMin <= call.result[k]
          /\ call.result[k] <= call.targetMax
          /\ (\A j \in DOMAIN call.scores : call.scores[j] = call.scores[k])
                => 2 * call.result[k] = call.targetMin + call.targetMax

\* C35 (ranges from 0 only): for a target range [0, targetMax] every value
\* normalizeScores returns lies within the range, and a flat map goes to the
\* midpoint.
NormalizedWithinRangeFromZero ==
    (lastOp.op = "normalizeScores" /\ lastOp.targetMin = 0)
        => NormalizedWithinRange(lastOp)

\* C35: for every non-empty score map and every target range with
\* targetMin <= targetMax, every value returned by normalizeScores lies
\* within [targetMin, targetMax]; when all input values are equal every key
\* is mapped to the midpoint of the target range.
C35_NormalizedWithinRange ==
    lastOp.op = "normalizeScores" => NormalizedWithinRange(lastOp)

----------------------------------------------------------------------------
\* The participants of the active conversation, none when there is none
ActiveParticipants ==
    IF state.activeConversation = <<>> THEN {}
    ELSE Range(state.activeConversation[1].participants)

\* An agent is conversing exactly when it takes part in the active
\* conversation, and its partner is then the other participant
ConversingIsParticipating ==
    /\ Len(state.activeConversation) <= 1
    /\ ActiveParticipants # {} => Cardinality(ActiveParticipants) = 2
    /\ \A a \in SimAgents :
          /\ state.agents[a].state = "conversing" <=> a \in ActiveParticipants
          /\ IF a \in ActiveParticipants
             THEN ActiveParticipants = {a, state.agents[a].conversationPartner}
             ELSE state.agents[a].conversationPartner = NoPartner

\* A movement update skips the conversing agents and leaves them as they were
MovementSkipsConversing ==
    lastOp'.op = "updateMovement" =>
        \A a \in SimAgents :
            state.agents[a].state = "conversing" =>
                /\ a \notin lastOp'.moved
                /\ state'.agents[a] = state.agents[a]

\* C36: in every reachable simulation state at most one conversation is
\* active, an agent's state is 'conversing' exactly when it is one of the
\* two participants of state.activeConversation, and then its
\* conversationPartner is the other participant (null otherwise); movement
\* updates never change the position or state of a conversing agent.
C36_ConversingIsParticipating ==
    []ConversingIsParticipating /\ [][MovementSkipsConversing]_vars

\* A second conversation is active, between two agents, while time moves on
C36_Witness ==
    /\ lastOp.op = "updateMovement"
    /\ calls.count = 2
    /\ Cardinality(ActiveParticipants) = 2
    /\ state.conversationHistory # <<>>

----------------------------------------------------------------------------
\* The agent took part in a conversation that has ended
HasConversed(a) ==
    \E i \in DOMAIN state.conversationHistory :
        a \in Range(state.conversationHistory[i].participants)

\* C37 (after a conversation): when a conversation ends its participants'
\* lastConversationTime is the time of the ending, and an agent that has
\* conversed is eligible exactly when it is not conversing and the cooldown
\* has elapsed since.
CooldownFromTheEnd ==
    [][/\ (state.activeConversation # <<>> /\ state'.activeConversation = <<>>)
          => \A a \in Range(state.activeConversation[1].participants) :
                /\ state'.agents[a].lastConversationTime = state'.time
                /\ ~Eligible(state', a)
       /\ \A a \in SimAgents :
             HasConversed(a) =>
                (Eligible(state, a) <=>
                    /\ state.agents[a].state # "conversing"
                    /\ state.time - state.agents[a].lastConversationTime
                           >= ConversationCooldown)]_vars

\* C37: an agent is eligible to be picked as a conversation candidate
\* exactly when it is not conversing and either it has never conversed (so
\* it is eligible immediately from simulation time 0) or at least 15000 ms
\* of simulation time have elapsed since its last conversation ended.
C37_EligibleUnlessCoolingDown ==
    \A a \in SimAgents :
        Eligible(state, a) <=>
            /\ state.agents[a].state # "conversing"
            /\ \/ ~HasConversed(a)
               \/ state.time - state.agents[a].lastConversationTime
                      >= ConversationCooldown

----------------------------------------------------------------------------
\* What C38 says stays as it was: simulation time, the agents' states, the
\* turns of the active conversation and the display memory streams
FrozenWhilePaused ==
    /\ state'.time = state.time
    /\ \A a \in SimAgents :
          /\ state'.agents[a].state = state.agents[a].state
          /\ state'.agents[a].conversationPartner
                = state.agents[a].conversationPartner
          /\ state'.agents[a].memoryStream = state.agents[a].memoryStream
    /\ TurnsOf(state') = TurnsOf(state)

\* The steps that are the completion of a request sent before the pause, or
\* the resumption of the handleConversations call that waited for it
CompletionSteps == {"generateDialogueTurn", "generateThought", "resume"}

\* C38 (calls made while paused): a call of handleConversations or
\* generateAgentThoughts made while state.isPaused is true changes nothing.
PausedCallsChangeNothing ==
    [][(state.isPaused /\ state'.isPaused /\ lastOp'.op \notin CompletionSteps)
          => (state' = state /\ calls' = calls)]_vars

\* C38: while state.isPaused is true no simulation state changes: simulation
\* time, agent positions and states, the active conversation's turns and
\* every agent's display memory stream stay as they were at the moment of
\* pausing until the simulation is resumed, including when a turn or thought
\* generation was in flight when the pause happened.
C38_PausedStateIsFrozen ==
    [][(state.isPaused /\ state'.isPaused) => FrozenWhilePaused]_vars

----------------------------------------------------------------------------
\* The conversation fields of the scratch state of every controller, by name
ConversationFields ==
    [name \in {AgentName} \cup DOMAIN others |->
        IF name = AgentName THEN scratch ELSE others[name]]

\* After startDialogue both participants are conversing with each other
\* until the same end time, the start time plus ten minutes
StartMarksBoth ==
    (lastOp'.op = "startDialogue" /\ ~lastOp'.threw) =>
        LET dialogue == activeDialogues'[lastOp'.dialogue]
            initiator == dialogue.participants[1]
            target == dialogue.participants[2]
        IN  /\ ConversationFields'[initiator].chattingWith = target
            /\ ConversationFields'[target].chattingWith = initiator
            /\ ConversationFields'[initiator].chattingEndTime
                  = EstimatedEndTime(dialogue.startTime)
            /\ ConversationFields'[target].chattingEndTime
                  = EstimatedEndTime(dialogue.startTime)

\* After endDialogue has removed the dialogue neither participant is
\* conversing
EndClearsBoth ==
    (/\ lastOp'.op = "endDialogue" /\ ~lastOp'.threw
     /\ lastOp'.dialogue \in DOMAIN activeDialogues
     /\ lastOp'.dialogue \notin DOMAIN activeDialogues') =>
        \A name \in Range(activeDialogues[lastOp'.dialogue].participants) :
            ConversationFields'[name].chattingWith = NullText

\* C39 (startDialogue only): after startDialogue both participants have
\* isInConversation true with each other's name and the same end time, the
\* start time plus ten minutes.
StartDialogueMarksBoth == [][StartMarksBoth]_vars

\* C39: the participants of a dialogue are marked as conversing exactly
\* while the dialogue is in the Dialogue Manager's active set: after
\* startDialogue both participants have isInConversation true with each
\* other's name and the same end time (start time + 10 minutes), and after
\* endDialogue has evicted the dialogue isInConversation is false for both.
C39_ConversingWhileActive == [][StartMarksBoth /\ EndClearsBoth]_vars

----------------------------------------------------------------------------
\* Every conversation of the simulation, the active one and the ended ones
SimConversations ==
    Range(state.activeConversation) \cup Range(state.conversationHistory)

\* The speakers of a conversation's turns are its participants, in turn
SpeakersAlternate(conversation) ==
    /\ \A i \in DOMAIN conversation.turns :
          conversation.turns[i].speakerId \in Range(conversation.participants)
    /\ \A i \in 1..(Len(conversation.turns) - 1) :
          conversation.turns[i].speakerId
              # conversation.turns[i + 1].speakerId

\* C40: within one simulation conversation, every turn's speaker is one of
\* its two participants and any two consecutive turns have different
\* speakers, for every interleaving of handleConversations ticks and
\* turn-generation completions.
C40_SpeakersAlternate ==
    \A conversation \in SimConversations : SpeakersAlternate(conversation)

\* A conversation has three turns, the third added by a turn generation
\* that has just completed
C40_Witness ==
    /\ lastOp.op = "generateDialogueTurn" /\ lastOp.ok
    /\ \E conversation \in SimConversations :
          /\ Len(conversation.turns) = 3
          /\ Len(conversation.participants) = 2
          /\ conversation.turns[1].speakerId = conversation.turns[3].speakerId

====
